---- MODULE Spec2Model ----
(***************************************************************************)
(* Verification model of kubelink's broker data plane:                     *)
(*   - the ingress policy of a link           (pkg/kubelink/links.go)      *)
(*   - the link registry                      (pkg/kubelink/links.go)      *)
(*   - the tunnel connection: handshake, read loop, framed writes, close   *)
(*                                            (broker, in endpoints.go)    *)
(*   - the once-closing listener              (pkg/tcp/util.go)            *)
(*                                                                         *)
(* Every component has its own group of variables and its own              *)
(* specification; a specification keeps the groups of the other            *)
(* components at their initial value.                                      *)
(***************************************************************************)
EXTENDS Integers, Sequences, FiniteSets, TLC

VARIABLES
  \* ---- ingress policy evaluation (Link.AllowIngress)
  pIngress,     \* Spec.Ingress of the link: list of cidr strings, "!" = deny
  pDst,         \* destination IP handed to AllowIngress
  pOut,         \* result of the call: [called, err, granted, set]
  \* ---- link registry (type Links)
  links,        \* Links.links:       name       -> Link
  endpoints,    \* Links.endpoints:   host       -> Link
  clusteraddr,  \* Links.clusteraddr: IP string  -> Link
  store,        \* objects created in the external store (Links.resource)
  lres,         \* outcome of the last registry call: [op, name, err]
  \* ---- read loop of a tunnel (TunnelConnection.Serve)
  muxLocal,     \* Mux.local: service CIDRs the node advertises
  sIn,          \* bytes the peer has put on the connection
  sSent,        \* number of frames the peer has written
  sPos,         \* bytes of sIn consumed by conn.Read so far
  sPc,          \* "new", "hdr", "body", "handle", "done"
  sLbuf,        \* ReadPacket's lbuf: header bytes read so far
  sBuf,         \* serve's buffer[:length]: payload bytes read so far
  sTun,         \* packets written to Mux.tun, in order
  sLog,         \* one entry per frame serve got from ReadPacket: [ty, pkt, out]
  sRdErr,       \* error returned by the last ReadPacket ("" = nil)
  sErr,         \* error returned by serve ("" while it runs)
  sHandlers,    \* TunnelConnection.handlers: the registered fail handlers
  sNotes,       \* Notify calls made by Serve, in order: [sink, err]
  \* ---- write side and Close of a tunnel (WritePacket, Close)
  wConn,        \* the net.Conn: "open", "broken" (a Write failed), "closed"
  wLock,        \* TunnelConnection.wlock: 0 = free, else the writer holding it
  wPc,          \* per writer: "idle", "lock", "hdr", "data", "done"
  wArg,         \* per writer: the arguments [ty, data] of its WritePacket
  wOff,         \* per writer: write's start within the slice being written
  wErr,         \* per writer: error returned by WritePacket ("" = nil)
  wWire,        \* bytes conn.Write has put on the wire
  wOrder,       \* writers in the order in which they obtained wlock
  cCalls,       \* number of calls of conn.Close
  cRes,         \* values returned by TunnelConnection.Close, in call order
  \* ---- the once-closing listener (onceCloseListener)
  oDone,        \* sync.Once.done
  oMu,          \* sync.Once.m: 0 = free, else the thread holding it
  oCloseErr,    \* onceCloseListener.closeErr
  oCalls,       \* number of calls of the wrapped Listener.Close
  oLErr,        \* error the first wrapped Listener.Close produced
  oPc,          \* per thread: position within Close
  oN,           \* per thread: Close calls started
  oRet,         \* per thread: values its Close calls returned
  \* ---- the handshake on one connection between sides "A" and "B"
  hConn,        \* the connection: "open" or "closed"
  hPc,          \* per side: "idle", "shake", "done", or "rogue" (not a broker)
  hMux,         \* per side: the Mux given to NewTunnelConnection
  hLink,        \* per side: ClusterAddress of the expected link, NilNet if none
  hW,           \* per side: writeHello's goroutine: "none", "pending", "ok", "err"
  hR,           \* per side: readHello: [st, hello, err]
  hOut,         \* per side: frames [ty, data] the side has put on the wire
  hRes,         \* per side: what NewTunnelConnection returned: [tunnel, hello, err]
  hAccess,      \* per side: hellos dispatched to connectionHandler.UpdateAccess
  \* ---- Links.Visit
  vLock,        \* Links.lock as Visit leaves it: "free" or "visit"
  vPc,          \* "idle", "iter" (calling the visitor), "done"
  vSnap,        \* Visit's local slice links
  vAtSnap,      \* the links the registry held when the slice was filled
  vSeen,        \* links the visitor was called with, in order
  vRets,        \* what the visitor returned, in order
  vCount,       \* Visit calls started
  \* ---- connectTask
  tTask,        \* a connect task for ConnectName exists
  tRate,        \* the delay its rate limiter holds, in seconds (0: reset)
  tStatus,      \* the reconcile.Status the last Execute returned
  tPending,     \* an execution of the task is requested
  tRuns,        \* executions so far
  \* ---- Link objects behind the registry's pointers
  gHeap,        \* the Link objects allocated so far, by address
  gReg,         \* the registry's three maps, holding addresses
  gHeld,        \* the *Link a reader got from GetLink, and what it saw there
  \* ---- Config
  cOption,      \* the served-links option as given
  cPrepared,    \* Prepare has run
  cResponsible, \* Config.Responsible
  cClusterCIDR, \* Config.ClusterCIDR
  cMatch,       \* the last MatchLink call: the object and what was returned
  cServiceCIDR, \* Config.ServiceCIDR
  cDNSServiceIP,\* Config.DNSServiceIP
  cPrepareErr,  \* how Prepare ended when it did not return nil
  cSub,         \* the last SubIP call: its arguments, cidr afterwards, the result
  \* ---- firewall
  fOut          \* the last GetFirewallChains call: the links it saw, the requests

pvars == <<pIngress, pDst, pOut>>
lvars == <<links, endpoints, clusteraddr, store, lres>>
svars == <<muxLocal, sIn, sSent, sPos, sPc, sLbuf, sBuf, sTun, sLog, sRdErr, sErr,
          sHandlers, sNotes>>
wvars == <<wConn, wLock, wPc, wArg, wOff, wErr, wWire, wOrder, cCalls, cRes>>
ovars == <<oDone, oMu, oCloseErr, oCalls, oLErr, oPc, oN, oRet>>
hvars == <<hConn, hPc, hMux, hLink, hW, hR, hOut, hRes, hAccess>>
vvars == <<vLock, vPc, vSnap, vAtSnap, vSeen, vRets, vCount>>
tvars == <<tTask, tRate, tStatus, tPending, tRuns>>
gvars == <<gHeap, gReg, gHeld>>
cvars == <<cOption, cPrepared, cResponsible, cClusterCIDR, cMatch,
          cServiceCIDR, cDNSServiceIP, cPrepareErr, cSub>>
fvars == <<fOut>>
vars  == <<pvars, lvars, svars, wvars, ovars, hvars, vvars, tvars, gvars, cvars, fvars>>

\* what an action of one component leaves alone
notP  == <<lvars, svars, wvars, ovars, hvars, vvars, tvars, gvars, cvars, fvars>>
notL  == <<pvars, svars, wvars, ovars, hvars, vvars, tvars, gvars, cvars, fvars>>
notS  == <<pvars, wvars, ovars, hvars, vvars, tvars, gvars, cvars, fvars>>  \* the read loop reads the registry
notW  == <<pvars, lvars, svars, ovars, hvars, vvars, tvars, gvars, cvars, fvars>>
notO  == <<pvars, lvars, svars, wvars, hvars, vvars, tvars, gvars, cvars, fvars>>
notH  == <<pvars, lvars, svars, wvars, ovars, vvars, tvars, gvars, cvars, fvars>>
notV  == <<pvars, svars, wvars, ovars, hvars, tvars, gvars, cvars, fvars>>  \* the visitor works on the registry
notT  == <<pvars, svars, wvars, ovars, hvars, vvars, gvars, cvars, fvars>>  \* the task reads the registry
notG  == <<pvars, lvars, svars, wvars, ovars, hvars, vvars, tvars, cvars, fvars>>
notC  == <<pvars, lvars, svars, wvars, ovars, hvars, vvars, tvars, gvars, fvars>>
notF  == <<pvars, lvars, svars, wvars, ovars, hvars, vvars, tvars, gvars, cvars>>

-----------------------------------------------------------------------------
(* Bounds of the model *)

\* longest ingress list of a link spec
MaxIngress == 2
\* frames the peer sends to a read loop that checks packets against the registry
MaxPolicyFrames == 2
\* frames the peer sends to a read loop that only frames and forwards
MaxFlowFrames == 3
\* goroutines calling WritePacket on one tunnel
MaxWriters == 2
\* calls of TunnelConnection.Close
MaxCloses == 2
\* threads calling onceCloseListener.Close
MaxClosers == 2
\* Close calls of one thread
MaxCloseCalls == 2
\* DATA frames a side writes on a tunnel it got from the handshake
MaxTunnelData == 1
\* frames a peer that is not a broker puts on the connection
MaxRogueFrames == 2
\* calls of Links.Visit
MaxVisits == 2
\* executions of the connect task
MaxRuns == 9
\* Link objects allocated
MaxAllocs == 4

-----------------------------------------------------------------------------
(* IP addresses and networks (Go's net.IP / net.IPNet) *)

\* An IP is its byte sequence: 4 bytes for IPv4, 16 for IPv6.
IPv6zero == [i \in 1..16 |-> 0]

\* byte i (1-based) of the mask of a prefix of `bits` bits
MaskByte(bits, i) ==
  LET b == bits - 8 * (i - 1)
  IN  IF b >= 8 THEN 255 ELSE IF b <= 0 THEN 0 ELSE 256 - 2^(8 - b)

\* x & m for a mask byte m = 256 - 2^k
AndByte(x, m) == x - (x % (256 - m))

\* ip.Mask(mask)
MaskIP(ip, bits) == [i \in 1..Len(ip) |-> AndByte(ip[i], MaskByte(bits, i))]

\* (*net.IPNet).Contains: both sides are masked, families must agree
IPNetContains(n, ip) ==
  /\ Len(n.IP) = Len(ip)
  /\ MaskIP(n.IP, n.Bits) = MaskIP(ip, n.Bits)

Net(ip, bits) == [IP |-> ip, Bits |-> bits]

\* CIDRList.IsSet: the slice is not nil (a list is nil until Add appends)
CIDRListIsSet(list) == list # <<>>

\* CIDRList.Contains
CIDRListContains(list, ip) == \E i \in 1..Len(list) : IPNetContains(list[i], ip)

-----------------------------------------------------------------------------
(* Strings of a link spec, by what the parsers make of them *)

\* a CIDR string "a.b.c.d/n"; kind "ip" is an address without "/n",
\* kind "bad" anything unparsable, kind "empty" the empty string
CidrStr(ip, bits) == [kind |-> "cidr", IP |-> ip, Bits |-> bits]
IpStr(ip)         == [kind |-> "ip",   IP |-> ip, Bits |-> 0]
BadStr            == [kind |-> "bad",  IP |-> <<>>, Bits |-> 0]
EmptyStr          == [kind |-> "empty", IP |-> <<>>, Bits |-> 0]

\* net.ParseCIDR: [err, ip, net]; net.IP is the masked address
ParseCIDR(s) ==
  IF s.kind = "cidr"
    THEN [err |-> FALSE, ip |-> s.IP, net |-> Net(MaskIP(s.IP, s.Bits), s.Bits)]
    ELSE [err |-> TRUE, ip |-> <<>>, net |-> Net(<<>>, 0)]

\* tcp.ParseNet: the network of a CIDR string
ParseNet(s) == ParseCIDR(s)

\* an entry of Spec.Ingress: a leading "!" (neg) and the cidr string after it
Allow(s) == [neg |-> FALSE, str |-> s]
Deny(s)  == [neg |-> TRUE,  str |-> s]

-----------------------------------------------------------------------------
(* Ingress policy: IPRange, Link.AllowIngress *)

NilIPRange == [isnil |-> TRUE, Allowed |-> <<>>, Denied |-> <<>>]

RECURSIVE ParseIPRangeFrom(_, _, _)
ParseIPRangeFrom(list, i, r) ==
  IF i > Len(list) THEN [err |-> FALSE, range |-> r]
  ELSE LET p == ParseNet(list[i].str)
       IN  IF p.err THEN [err |-> TRUE, range |-> NilIPRange]
           ELSE ParseIPRangeFrom(list, i + 1,
                  IF list[i].neg
                    THEN [r EXCEPT !.Denied = Append(@, p.net)]
                    ELSE [r EXCEPT !.Allowed = Append(@, p.net)])

\* ParseIPRange: nil for an empty list, else the Allowed and Denied lists
ParseIPRange(list) ==
  IF Len(list) > 0
    THEN ParseIPRangeFrom(list, 1, [isnil |-> FALSE, Allowed |-> <<>>, Denied |-> <<>>])
    ELSE [err |-> FALSE, range |-> NilIPRange]

\* IsSet that looks at the Allowed list only
IPRangeIsSet_AllowedOnly(r) == ~r.isnil /\ CIDRListIsSet(r.Allowed)

\* IPRange.IsSet
IPRangeIsSet(r) ==
  ~r.isnil /\ (CIDRListIsSet(r.Allowed) \/ CIDRListIsSet(r.Denied))

\* IPRange.Contains: the Denied list is consulted only when the Allowed list
\* is unset or matches; every other address falls through to "true"
IPRangeContains(r, ip) ==
  IF r.isnil THEN TRUE
  ELSE IF ~CIDRListIsSet(r.Allowed) \/ CIDRListContains(r.Allowed, ip)
    THEN ~(\E i \in 1..Len(r.Denied) : IPNetContains(r.Denied[i], ip))
    ELSE TRUE

\* Link.AllowIngress on the link's Ingress field
AllowIngress(ingress, ip) ==
  IF ~IPRangeIsSet(ingress)
    THEN [granted |-> TRUE, set |-> FALSE]
    ELSE [granted |-> IPRangeContains(ingress, ip), set |-> TRUE]

-----------------------------------------------------------------------------
(* Addresses used as inputs *)

IP_A     == <<192, 168, 0, 11>>   \* the local node's mesh address
IP_B     == <<192, 168, 0, 12>>
IP_C     == <<192, 168, 0, 13>>
IP_Far   == <<10, 0, 0, 1>>
IP_Svc3  == <<100, 64, 16, 3>>
IP_Svc5  == <<100, 64, 16, 5>>
IP_Svc40 == <<100, 64, 16, 40>>

-----------------------------------------------------------------------------
(* Specification SpecPolicy: Link.AllowIngress on every small ingress list *)

Net_Svc28 == CidrStr(<<100, 64, 16, 0>>, 28)
Net_Svc30 == CidrStr(<<100, 64, 16, 0>>, 30)
Net_Far8  == CidrStr(<<10, 0, 0, 0>>, 8)

IngressEntries ==
  { Allow(Net_Svc28), Deny(CidrStr(IP_Svc5, 32)), Deny(Net_Svc30),
    Allow(Net_Far8), Allow(BadStr) }

RECURSIVE SeqsUpTo(_, _)
SeqsUpTo(S, n) ==
  IF n = 0 THEN { <<>> }
  ELSE LET shorter == SeqsUpTo(S, n - 1)
       IN  shorter \cup { Append(q, x) : q \in shorter, x \in S }

IngressLists == SeqsUpTo(IngressEntries, MaxIngress)
DstIPs       == { IP_Svc3, IP_Svc5, IP_Svc40, IP_Far, IP_A }

PNotCalled == [called |-> FALSE, err |-> FALSE, granted |-> FALSE, set |-> FALSE]

\* A link is built from its spec (LinkFor parses Spec.Ingress) and a packet
\* destination is put to its ingress policy.
LinkAllowIngress(list, dst) ==
  /\ ~pOut.called
  /\ pIngress' = list
  /\ pDst' = dst
  /\ LET p == ParseIPRange(list)
         r == AllowIngress(p.range, dst)
     IN  pOut' = IF p.err
                   THEN [called |-> TRUE, err |-> TRUE, granted |-> FALSE, set |-> FALSE]
                   ELSE [called |-> TRUE, err |-> FALSE,
                         granted |-> r.granted, set |-> r.set]
  /\ UNCHANGED notP

-----------------------------------------------------------------------------
(* Link registry: Link, LinkFor, Links (pkg/kubelink/links.go) *)

DEFAULT_PORT == 80

\* Links.defaultport
defaultport == DEFAULT_PORT

NilNet == Net(<<>>, 0)
NilIP  == <<>>

\* Maps (name -> *Link) are functions over the set of their keys.
EmptyMap == << >>
MapPut(m, k, v) == [x \in (DOMAIN m) \cup {k} |-> IF x = k THEN v ELSE m[x]]
MapDelete(m, k) == [x \in (DOMAIN m) \ {k} |-> m[x]]

\* The zero LinkForeignData of a freshly built Link
NoAccess == [CACert |-> "", Token |-> ""]
NoDNS    == [ClusterDomain |-> "", DnsIP |-> NilIP]
NoForeignData == [UpdatePending |-> FALSE, Access |-> NoAccess, DNS |-> NoDNS]

\* strconv.ParseInt(s, 10, 32) on the port strings used as inputs
ParseInt(s) ==
  IF s = "8088" THEN [err |-> FALSE, val |-> 8088]
  ELSE IF s = "443" THEN [err |-> FALSE, val |-> 443]
  ELSE [err |-> TRUE, val |-> 0]

\* An endpoint string is the list of its ":"-separated parts
\* (strings.Split); "" is <<"">>, "none" is <<"none">>.
EndpointIsEmpty(parts) == parts = <<"">>

RECURSIVE ParseNetsFrom(_, _, _)
ParseNetsFrom(list, i, acc) ==
  IF i > Len(list) THEN [err |-> FALSE, nets |-> acc]
  ELSE LET p == ParseNet(list[i])
       IN  IF p.err THEN [err |-> TRUE, nets |-> <<>>]
           ELSE ParseNetsFrom(list, i + 1, Append(acc, p.net))

NilLink == [Name |-> ""]

\* Links.LinkFor: parse and validate a KubeLink object; [err, link]
LinkFor(klink) ==
  LET failed  == [err |-> TRUE, link |-> NilLink]
      svc     == ParseCIDR(klink.CIDR)
      hasSvc  == klink.CIDR.kind # "empty"
      egress0 == IF hasSvc /\ ~svc.err THEN <<svc.net>> ELSE <<>>
      eg      == ParseNetsFrom(klink.Egress, 1, egress0)
      ing     == ParseIPRange(klink.Ingress)
      ca      == ParseCIDR(klink.ClusterAddress)
      parts   == klink.Endpoint
      dial    == ~EndpointIsEmpty(parts) /\ parts # <<"none">>
      pp      == IF Len(parts) > 1 THEN ParseInt(parts[2]) ELSE [err |-> FALSE, val |-> 0]
  IN  IF hasSvc /\ svc.err THEN failed
      ELSE IF eg.err THEN failed
      ELSE IF ing.err THEN failed
      ELSE IF ca.err THEN failed
      ELSE IF EndpointIsEmpty(parts) THEN failed
      ELSE IF klink.Gateway.kind = "empty" THEN failed
      ELSE IF klink.Gateway.kind # "ip" THEN failed
      ELSE IF dial /\ Len(parts) > 1 /\ pp.err THEN failed
      ELSE IF klink.PublicKey = "bad" THEN failed
      ELSE [err |-> FALSE,
            link |-> [Name           |-> klink.Name,
                      ServiceCIDR    |-> IF hasSvc THEN svc.net ELSE NilNet,
                      Egress         |-> eg.nets,
                      Ingress        |-> ing.range,
                      \* ccidr.IP = ip: the address itself, with the mesh mask
                      ClusterAddress |-> Net(ca.ip, ca.net.Bits),
                      Gateway        |-> klink.Gateway.IP,
                      Host           |-> parts[1],
                      Port           |-> IF dial /\ Len(parts) > 1 THEN pp.val ELSE defaultport,
                      Endpoint       |-> IF dial /\ Len(parts) = 1
                                           THEN <<parts[1], ToString(defaultport)>>
                                           ELSE parts,
                      PublicKey      |-> klink.PublicKey,
                      Foreign        |-> NoForeignData]]

\* The registry object: the three maps of Links
Registry(l, e, c) == [links |-> l, endpoints |-> e, clusteraddr |-> c]
EmptyRegistry == Registry(EmptyMap, EmptyMap, EmptyMap)

\* Links.replaceLink
replaceLink(this, link) ==
  Registry(MapPut(this.links, link.Name, link),
           MapPut(this.endpoints, link.Host, link),
           MapPut(this.clusteraddr, link.ClusterAddress.IP, link))

\* updateLink that installs the link as LinkFor built it
updateLink_FreshForeign(this, klink) ==
  LET r == LinkFor(klink)
  IN  IF r.err THEN [err |-> TRUE, this |-> this]
      ELSE IF klink.Name \in DOMAIN this.links
        THEN LET old == this.links[klink.Name]
                 l   == r.link
                 e1  == IF old.Host # l.Host
                          THEN MapDelete(this.endpoints, old.Host)
                          ELSE this.endpoints
                 c1  == IF old.ClusterAddress.IP # l.ClusterAddress.IP
                          THEN MapDelete(this.clusteraddr, old.ClusterAddress.IP)
                          ELSE this.clusteraddr
             IN  [err |-> FALSE, this |-> replaceLink(Registry(this.links, e1, c1), l)]
        ELSE [err |-> FALSE, this |-> replaceLink(this, r.link)]

\* updateLink that clears the name's old entries before it validates
updateLink_DropsOldOnError(this, klink) ==
  LET r == LinkFor(klink)
  IN  IF r.err
        THEN [err |-> TRUE,
              this |-> IF klink.Name \in DOMAIN this.links
                         THEN LET old == this.links[klink.Name]
                              IN  Registry(this.links,
                                           MapDelete(this.endpoints, old.Host),
                                           MapDelete(this.clusteraddr, old.ClusterAddress.IP))
                         ELSE this]
      ELSE IF klink.Name \in DOMAIN this.links
        THEN LET old == this.links[klink.Name]
                 l   == [r.link EXCEPT !.Foreign = old.Foreign]
             IN  [err |-> FALSE,
                  this |-> replaceLink(Registry(this.links,
                                                MapDelete(this.endpoints, old.Host),
                                                MapDelete(this.clusteraddr, old.ClusterAddress.IP)),
                                       l)]
        ELSE [err |-> FALSE, this |-> replaceLink(this, r.link)]

\* Links.updateLink: [err, this]
updateLink(this, klink) ==
  LET r == LinkFor(klink)
  IN  IF r.err THEN [err |-> TRUE, this |-> this]
      ELSE IF klink.Name \in DOMAIN this.links
        THEN LET old == this.links[klink.Name]
                 l   == [r.link EXCEPT !.Foreign = old.Foreign]
                 e1  == IF old.Host # l.Host
                          THEN MapDelete(this.endpoints, old.Host)
                          ELSE this.endpoints
                 c1  == IF old.ClusterAddress.IP # l.ClusterAddress.IP
                          THEN MapDelete(this.clusteraddr, old.ClusterAddress.IP)
                          ELSE this.clusteraddr
             IN  [err |-> FALSE, this |-> replaceLink(Registry(this.links, e1, c1), l)]
        ELSE [err |-> FALSE, this |-> replaceLink(this, r.link)]

\* RemoveLink that leaves the endpoint index alone
removeLink_KeepsEndpoint(this, name) ==
  IF name \in DOMAIN this.links
    THEN LET l == this.links[name]
         IN  Registry(MapDelete(this.links, name),
                      this.endpoints,
                      MapDelete(this.clusteraddr, l.ClusterAddress.IP))
    ELSE this

\* Links.RemoveLink as a function of the registry
removeLink(this, name) ==
  IF name \in DOMAIN this.links
    THEN LET l == this.links[name]
         IN  Registry(MapDelete(this.links, name),
                      MapDelete(this.endpoints, l.Host),
                      MapDelete(this.clusteraddr, l.ClusterAddress.IP))
    ELSE this

\* Links.GetLinkForClusterAddress: [found, link]
GetLinkForClusterAddress(this, ip) ==
  IF ip \in DOMAIN this.clusteraddr
    THEN [found |-> TRUE, link |-> this.clusteraddr[ip]]
    ELSE [found |-> FALSE, link |-> NilLink]

\* Links.GetLink, Links.GetLinkForEndpoint: [found, link]
GetLink(this, name) ==
  IF name \in DOMAIN this.links
    THEN [found |-> TRUE, link |-> this.links[name]]
    ELSE [found |-> FALSE, link |-> NilLink]
GetLinkForEndpoint(this, dnsname) ==
  IF dnsname \in DOMAIN this.endpoints
    THEN [found |-> TRUE, link |-> this.endpoints[dnsname]]
    ELSE [found |-> FALSE, link |-> NilLink]

\* GetLinkForIP that ranges over the links' egress before it looks at the
\* cluster address index
GetLinkForIP_EgressFirst(this, ip) ==
  LET byEgress == { this.links[n] : n \in { x \in DOMAIN this.links :
                                      CIDRListContains(this.links[x].Egress, ip) } }
  IN  IF byEgress # {} THEN byEgress
      ELSE IF ip \in DOMAIN this.clusteraddr THEN { this.clusteraddr[ip] }
      ELSE { NilLink }

\* Links.GetLinkForIP: the results the call may return, NilLink for nil (the
\* range over this.links has no fixed order)
GetLinkForIP(this, ip) ==
  IF ip \in DOMAIN this.clusteraddr THEN { this.clusteraddr[ip] }
  ELSE LET byEgress == { this.links[n] : n \in { x \in DOMAIN this.links :
                                           CIDRListContains(this.links[x].Egress, ip) } }
       IN  IF byEgress = {} THEN { NilLink } ELSE byEgress

\* Links.Visit's snapshot: the links of the registry, in any order
VisitLinks(this) == { this.links[n] : n \in DOMAIN this.links }

\* a *LinkAccessInfo / *LinkDNSInfo argument: nil, or a pointer to a value
NilInfo == <<>>
Ptr(v) == <<v>>
AccessEqual(a, b) == a.CACert = b.CACert /\ a.Token = b.Token
DNSEqual(a, b) == a.DnsIP = b.DnsIP /\ a.ClusterDomain = b.ClusterDomain

\* UpdateLinkInfo that stages whatever differs, pending or not
updateLinkInfo_NoPendingGuard(this, name, access, dns, pending) ==
  IF name \notin DOMAIN this.links THEN [this |-> this, changed |-> FALSE]
  ELSE LET old  == this.links[name]
           acc  == access # NilInfo /\ ~AccessEqual(old.Foreign.Access, access[1])
           dn   == dns # NilInfo /\ ~DNSEqual(old.Foreign.DNS, dns[1])
           new1 == IF acc THEN [old EXCEPT !.Foreign.Access = access[1],
                                           !.Foreign.UpdatePending = pending]
                   ELSE old
           new2 == IF dn THEN [new1 EXCEPT !.Foreign.DNS = dns[1],
                                           !.Foreign.UpdatePending = pending]
                   ELSE new1
       IN  IF acc \/ dn THEN [this |-> replaceLink(this, new2), changed |-> TRUE]
           ELSE [this |-> this, changed |-> FALSE]

\* UpdateLinkInfo that takes the pending argument over whenever a value is given
updateLinkInfo_PendingAlways(this, name, access, dns, pending) ==
  IF name \notin DOMAIN this.links THEN [this |-> this, changed |-> FALSE]
  ELSE LET old  == this.links[name]
           may  == ~old.Foreign.UpdatePending \/ pending
           acc  == access # NilInfo /\ may
           dn   == dns # NilInfo /\ may
           new1 == IF acc THEN [old EXCEPT !.Foreign.Access = access[1],
                                           !.Foreign.UpdatePending = pending]
                   ELSE old
           new2 == IF dn THEN [new1 EXCEPT !.Foreign.DNS = dns[1],
                                           !.Foreign.UpdatePending = pending]
                   ELSE new1
       IN  IF acc \/ dn THEN [this |-> replaceLink(this, new2), changed |-> TRUE]
           ELSE [this |-> this, changed |-> FALSE]

\* Links.UpdateLinkInfo: [this, changed]
updateLinkInfo(this, name, access, dns, pending) ==
  IF name \notin DOMAIN this.links THEN [this |-> this, changed |-> FALSE]
  ELSE LET old  == this.links[name]
           may  == ~old.Foreign.UpdatePending \/ pending
           acc  == access # NilInfo /\ ~AccessEqual(old.Foreign.Access, access[1]) /\ may
           dn   == dns # NilInfo /\ ~DNSEqual(old.Foreign.DNS, dns[1]) /\ may
           new1 == IF acc THEN [old EXCEPT !.Foreign.Access = access[1],
                                           !.Foreign.UpdatePending = pending]
                   ELSE old
           new2 == IF dn THEN [new1 EXCEPT !.Foreign.DNS = dns[1],
                                           !.Foreign.UpdatePending = pending]
                   ELSE new1
       IN  IF acc \/ dn THEN [this |-> replaceLink(this, new2), changed |-> TRUE]
           ELSE [this |-> this, changed |-> FALSE]

\* LinkInfoUpdated that takes any echo for the confirmation
linkInfoUpdated_AnyEcho(this, name, access, dns) ==
  IF name \notin DOMAIN this.links THEN this
  ELSE LET old == this.links[name]
       IN  IF access # NilInfo \/ dns # NilInfo
             THEN replaceLink(this, [old EXCEPT !.Foreign.UpdatePending = FALSE])
             ELSE this

\* Links.LinkInfoUpdated as a function of the registry
linkInfoUpdated(this, name, access, dns) ==
  IF name \notin DOMAIN this.links THEN this
  ELSE LET old == this.links[name]
           acc == access # NilInfo /\ AccessEqual(old.Foreign.Access, access[1])
           dn  == dns # NilInfo /\ DNSEqual(old.Foreign.DNS, dns[1])
       IN  IF acc \/ dn
             THEN replaceLink(this, [old EXCEPT !.Foreign.UpdatePending = FALSE])
             ELSE this

-----------------------------------------------------------------------------
(* Registry operations as actions on the registry's maps *)

this == Registry(links, endpoints, clusteraddr)

Install(reg) ==
  /\ links' = reg.links
  /\ endpoints' = reg.endpoints
  /\ clusteraddr' = reg.clusteraddr

LRes(op, name, err) == [op |-> op, name |-> name, err |-> err]

\* KubeLink objects offered to the registry
KubeLink(name, ca, ep, gw, cidr, ingress) ==
  [Name |-> name, CIDR |-> cidr, Egress |-> <<>>, Ingress |-> ingress,
   ClusterAddress |-> ca, Endpoint |-> ep, Gateway |-> gw, PublicKey |-> ""]

LinkNames == { "a", "b" }
Net_Svc20 == CidrStr(<<100, 64, 16, 0>>, 20)
GwStr     == [kind |-> "ip", IP |-> <<10, 250, 0, 1>>, Bits |-> 0]
PolicyS3  == << Allow(Net_Svc28), Deny(CidrStr(IP_Svc5, 32)) >>

\* well-formed specs: two names, two mesh addresses, two endpoints; one of
\* them with the service CIDR and ingress policy of scenario S3
GoodSpecs ==
  { KubeLink(n, ca, ep, GwStr, EmptyStr, <<>>) :
      n \in LinkNames,
      ca \in { CidrStr(IP_B, 24), CidrStr(IP_C, 24) },
      ep \in { <<"b.example">>, <<"c.example", "8088">> } }
  \cup { KubeLink("a", CidrStr(IP_B, 24), <<"b.example">>, GwStr, Net_Svc20, PolicyS3) }

\* specs LinkFor rejects: bad cluster address, no endpoint, no gateway,
\* bad port, bad service CIDR, bad ingress entry, bad egress entry,
\* unparsable gateway, bad public key
BadSpecs ==
  { KubeLink("a", BadStr, <<"b.example">>, GwStr, EmptyStr, <<>>),
    KubeLink("a", CidrStr(IP_C, 24), <<"">>, GwStr, EmptyStr, <<>>),
    KubeLink("b", CidrStr(IP_C, 24), <<"c.example">>, EmptyStr, EmptyStr, <<>>),
    KubeLink("b", CidrStr(IP_B, 24), <<"b.example", "x">>, GwStr, EmptyStr, <<>>),
    KubeLink("a", CidrStr(IP_B, 24), <<"b.example">>, GwStr, BadStr, <<>>),
    KubeLink("b", CidrStr(IP_B, 24), <<"b.example">>, GwStr, EmptyStr, <<Allow(BadStr)>>),
    [KubeLink("a", CidrStr(IP_B, 24), <<"b.example">>, GwStr, EmptyStr, <<>>)
       EXCEPT !.Egress = <<BadStr>>],
    KubeLink("b", CidrStr(IP_C, 24), <<"c.example">>, BadStr, EmptyStr, <<>>),
    [KubeLink("a", CidrStr(IP_C, 24), <<"c.example">>, GwStr, EmptyStr, <<>>)
       EXCEPT !.PublicKey = "bad"] }

LinkSpecs == GoodSpecs \cup BadSpecs

ValidLinks == { LinkFor(k).link : k \in { x \in LinkSpecs : ~LinkFor(x).err } }

\* Links.UpdateLink
UpdateLink(klink) ==
  LET r == updateLink(this, klink)
  IN  /\ Install(r.this)
      /\ lres' = LRes("UpdateLink", klink.Name, r.err)
      /\ UNCHANGED <<store, notL>>

\* Links.ReplaceLink
ReplaceLink(link) ==
  /\ Install(replaceLink(this, link))
  /\ lres' = LRes("ReplaceLink", link.Name, FALSE)
  /\ UNCHANGED <<store, notL>>

\* Links.RemoveLink
RemoveLink(name) ==
  /\ Install(removeLink(this, name))
  /\ lres' = LRes("RemoveLink", name, FALSE)
  /\ UNCHANGED <<store, notL>>

\* Links.RegisterLink: create the object in the store, then UpdateLink it.
\* created = FALSE is the store refusing the object.
RegisterLink(name, clusterCIDR, fqdn, cidr, created) ==
  LET kl == [Name |-> name, CIDR |-> CidrStr(cidr.IP, cidr.Bits), Egress |-> <<>>,
             Ingress |-> <<>>, ClusterAddress |-> IpStr(clusterCIDR.IP),
             Endpoint |-> <<fqdn>>, Gateway |-> EmptyStr, PublicKey |-> ""]
      r  == updateLink(this, kl)
  IN  IF ~created \/ name \in { o.Name : o \in store }
        THEN /\ lres' = LRes("RegisterLink", name, TRUE)
             /\ UNCHANGED <<links, endpoints, clusteraddr, store, notL>>
        ELSE /\ store' = store \cup { kl }
             /\ Install(r.this)
             /\ lres' = LRes("RegisterLink", name, r.err)
             /\ UNCHANGED notL

\* Links.UpdateLinkInfo
UpdateLinkInfo(name, access, dns, pending) ==
  LET r == updateLinkInfo(this, name, access, dns, pending)
  IN  /\ Install(r.this)
      /\ lres' = [op |-> "UpdateLinkInfo", name |-> name, err |-> FALSE,
                  access |-> access, dns |-> dns, pending |-> pending,
                  changed |-> r.changed]
      /\ UNCHANGED <<store, notL>>

\* Links.LinkInfoUpdated
LinkInfoUpdated(name, access, dns) ==
  /\ Install(linkInfoUpdated(this, name, access, dns))
  /\ lres' = [op |-> "LinkInfoUpdated", name |-> name, err |-> FALSE,
              access |-> access, dns |-> dns]
  /\ UNCHANGED <<store, notL>>

\* advertised values
Access1 == [CACert |-> "ca1", Token |-> "t1"]
Access2 == [CACert |-> "ca1", Token |-> "t2"]
DNS1 == [ClusterDomain |-> "cluster.local", DnsIP |-> <<100, 64, 16, 10>>]
DNS2 == [ClusterDomain |-> "cluster.local", DnsIP |-> <<100, 64, 16, 11>>]
AccessArgs == { NilInfo, Ptr(Access1), Ptr(Access2) }
DNSArgs == { NilInfo, Ptr(DNS1), Ptr(DNS2) }

\* specs of link "a" that differ in address, endpoint and policy, one that
\* LinkFor rejects, and a link "b"
ForeignSpecs ==
  { KubeLink("a", CidrStr(IP_B, 24), <<"b.example">>, GwStr, EmptyStr, <<>>),
    KubeLink("a", CidrStr(IP_C, 24), <<"c.example", "8088">>, GwStr, Net_Svc20, PolicyS3),
    KubeLink("a", BadStr, <<"b.example">>, GwStr, EmptyStr, <<>>),
    KubeLink("b", CidrStr(IP_C, 24), <<"c.example">>, GwStr, EmptyStr, <<>>) }

\* Links.GetLinkForIP returning the link called name ("" for nil)
CallGetLinkForIP(ip, name) ==
  /\ \E l \in GetLinkForIP(this, ip) :
       /\ l.Name = name
       /\ lres' = [op |-> "GetLinkForIP", name |-> name, err |-> FALSE,
                   ip |-> ip, link |-> l]
  /\ UNCHANGED <<links, endpoints, clusteraddr, store, notL>>

\* link "a" routing the mesh network, a part of b's service network or
\* nothing, link "b" with and without the service CIDR 100.64.16.0/20 and
\* with the cluster address of "a"
IP_Svc1 == <<100, 64, 16, 1>>
Net_Mesh16 == CidrStr(<<192, 168, 0, 0>>, 16)
LookupSpecs ==
  { [KubeLink("a", CidrStr(IP_B, 24), <<"b.example">>, GwStr, EmptyStr, <<>>)
       EXCEPT !.Egress = <<Net_Mesh16>>],
    KubeLink("a", CidrStr(IP_B, 24), <<"b.example">>, GwStr, Net_Svc28, <<>>),
    KubeLink("a", CidrStr(IP_Far, 8), <<"far.example">>, GwStr, EmptyStr, <<>>),
    KubeLink("b", CidrStr(IP_C, 24), <<"c.example">>, GwStr, Net_Svc20, <<>>),
    KubeLink("b", CidrStr(IP_C, 24), <<"c.example">>, GwStr, EmptyStr, <<>>),
    KubeLink("b", CidrStr(IP_B, 24), <<"c.example">>, GwStr, Net_Svc20, <<>>) }
IP_Mesh7 == <<192, 168, 7, 7>>
LookupIPs == { IP_B, IP_C, IP_Mesh7, IP_Svc1, IP_Svc40, IP_Far }

-----------------------------------------------------------------------------
(* The registry's maps as maps of *Link: objects and their addresses *)

NoPointer == [addr |-> 0, val |-> NilLink]

\* the registry as the values its pointers lead to
Deref(reg, heap) ==
  Registry([k \in DOMAIN reg.links |-> heap[reg.links[k]]],
           [k \in DOMAIN reg.endpoints |-> heap[reg.endpoints[k]]],
           [k \in DOMAIN reg.clusteraddr |-> heap[reg.clusteraddr[k]]])

\* the address maps after an operation left the keys of vreg, with the
\* object at addr installed by replaceLink under the keys of link
Readdress(reg, vreg, link, addr) ==
  Registry([k \in DOMAIN vreg.links |-> IF k = link.Name THEN addr ELSE reg.links[k]],
           [k \in DOMAIN vreg.endpoints |-> IF k = link.Host THEN addr ELSE reg.endpoints[k]],
           [k \in DOMAIN vreg.clusteraddr |->
              IF k = link.ClusterAddress.IP THEN addr ELSE reg.clusteraddr[k]])

\* writing a Link object at an address: a new cell or an existing one
Store(heap, addr, link) ==
  IF addr = Len(heap) + 1 THEN Append(heap, link) ELSE [heap EXCEPT ![addr] = link]

\* an update that works on the old object itself
NewCopy_Alias(old, fresh) == old

\* new := *old: the update works on a copy at a fresh address
NewCopy(old, fresh) == fresh

\* UpdateLink: LinkFor allocates the Link that replaceLink installs
UpdateLinkObject(klink) ==
  LET v == Deref(gReg, gHeap)
      r == updateLink(v, klink)
      a == Len(gHeap) + 1
  IN  /\ ~r.err
      /\ a <= MaxAllocs
      /\ gHeap' = Store(gHeap, a, r.this.links[klink.Name])
      /\ gReg' = Readdress(gReg, r.this, r.this.links[klink.Name], a)
      /\ UNCHANGED <<gHeld, notG>>

\* UpdateLinkInfo, when it stages or stores a value
UpdateLinkInfoObject(name, access, dns, pending) ==
  LET v == Deref(gReg, gHeap)
      r == updateLinkInfo(v, name, access, dns, pending)
      a == NewCopy(gReg.links[name], Len(gHeap) + 1)
  IN  /\ name \in DOMAIN gReg.links
      /\ r.changed
      /\ a <= MaxAllocs
      /\ gHeap' = Store(gHeap, a, r.this.links[name])
      /\ gReg' = Readdress(gReg, r.this, r.this.links[name], a)
      /\ UNCHANGED <<gHeld, notG>>

\* LinkInfoUpdated, when a stored value is echoed
LinkInfoUpdatedObject(name, access, dns) ==
  LET v == Deref(gReg, gHeap)
      r == linkInfoUpdated(v, name, access, dns)
      a == NewCopy(gReg.links[name], Len(gHeap) + 1)
  IN  /\ name \in DOMAIN gReg.links
      /\ \/ access # NilInfo /\ AccessEqual(v.links[name].Foreign.Access, access[1])
         \/ dns # NilInfo /\ DNSEqual(v.links[name].Foreign.DNS, dns[1])
      /\ a <= MaxAllocs
      /\ gHeap' = Store(gHeap, a, r.links[name])
      /\ gReg' = Readdress(gReg, r, r.links[name], a)
      /\ UNCHANGED <<gHeld, notG>>

\* RemoveLink: the maps lose their entries, the object stays where it is
RemoveLinkObject(name) ==
  LET v == Deref(gReg, gHeap)
      r == removeLink(v, name)
  IN  /\ name \in DOMAIN gReg.links
      /\ gReg' = Readdress(gReg, r, NilLink, 0)
      /\ UNCHANGED <<gHeap, gHeld, notG>>

\* GetLink: a reader takes the pointer out of the map and looks at the Link
GetLinkObject(name) ==
  /\ name \in DOMAIN gReg.links
  /\ gHeld' = [addr |-> gReg.links[name], val |-> gHeap[gReg.links[name]]]
  /\ UNCHANGED <<gHeap, gReg, notG>>

ObjectAccessArgs == { Ptr(Access1), Ptr(Access2) }
ObjectSpecs ==
  { KubeLink("a", CidrStr(IP_B, 24), <<"b.example">>, GwStr, EmptyStr, <<>>),
    KubeLink("a", CidrStr(IP_C, 24), <<"c.example", "8088">>, GwStr, Net_Svc20, PolicyS3) }

-----------------------------------------------------------------------------
(* Config.Prepare (served links) and Config.MatchLink *)

\* strings of names and options are sequences of characters
RECURSIVE Split(_, _)
Split(str, sep) ==
  IF \A i \in 1..Len(str) : str[i] # sep THEN << str >>
  ELSE LET i == CHOOSE j \in 1..Len(str) :
                  str[j] = sep /\ \A k \in 1..(j - 1) : str[k] # sep
       IN  << SubSeq(str, 1, i - 1) >> \o Split(SubSeq(str, i + 1, Len(str)), sep)

RECURSIVE TrimSpace(_)
TrimSpace(str) ==
  IF str = <<>> THEN str
  ELSE IF str[1] = " " THEN TrimSpace(Tail(str))
  ELSE IF str[Len(str)] = " " THEN TrimSpace(SubSeq(str, 1, Len(str) - 1))
  ELSE str

All == <<"a", "l", "l">>

\* Prepare's normalisation without the reduction to {"all"}
Responsible_KeepsNames(option) ==
  LET parts == Split(option, ",")
  IN  { TrimSpace(parts[i]) : i \in 1..Len(parts) }

\* Prepare: this.Responsible from the served-links option
Responsible(option) ==
  LET parts == Split(option, ",")
      set   == { TrimSpace(parts[i]) : i \in 1..Len(parts) }
  IN  IF All \in set THEN { All } ELSE set

\* MatchLink without the test against the local mesh CIDR
MatchLink_NoMeshCheck(responsible, clusterCIDR, obj) ==
  LET p == ParseCIDR(obj.ClusterAddress)
  IN  IF p.err THEN [ok |-> FALSE, ip |-> NilIP]
      ELSE IF All \notin responsible /\ obj.Name \notin responsible
        THEN [ok |-> FALSE, ip |-> NilIP]
      ELSE [ok |-> TRUE, ip |-> p.ip]

\* Config.MatchLink
MatchLink(responsible, clusterCIDR, obj) ==
  LET p == ParseCIDR(obj.ClusterAddress)
  IN  IF p.err THEN [ok |-> FALSE, ip |-> NilIP]
      ELSE IF All \notin responsible /\ obj.Name \notin responsible
        THEN [ok |-> FALSE, ip |-> NilIP]
      ELSE [ok |-> IPNetContains(clusterCIDR, p.ip), ip |-> p.ip]

NoMatch == [called |-> FALSE, Name |-> <<>>, ClusterAddress |-> EmptyStr,
            ok |-> FALSE, ip |-> NilIP]

\* README, "IP 10 in the clusters service IP range"
CLUSTER_DNS_IP == 10

\* tcp.CloneIP: the slice the copy lives in ("cidr" is the argument's own)
CloneIP_Alias == "cidr"
CloneIP == "ip"

\* SubIP's loop on the slice `slot`; i is the index counted from 1, so that
\* i < 1 is Go's ip[-1], a run-time panic
RECURSIVE SubIPLoop(_, _, _, _)
SubIPLoop(mem, slot, i, n) ==
  IF ~(n > 0) THEN [mem |-> mem, panic |-> FALSE]
  ELSE IF i < 1 THEN [mem |-> mem, panic |-> TRUE]
  ELSE LET m == n + mem[slot][i]
       IN  SubIPLoop([mem EXCEPT ![slot][i] = m % 256], slot, i - 1, m \div 256)

\* tcp.SubIP: [ip, panic] and the argument as the call leaves it
SubIP(cidr, n) ==
  LET r == SubIPLoop([cidr |-> cidr.IP, ip |-> cidr.IP], CloneIP, Len(cidr.IP), n)
  IN  [ip |-> r.mem[CloneIP], panic |-> r.panic, cidr |-> Net(r.mem.cidr, cidr.Bits)]

\* net.ParseIP: nil unless the string is an address; IPv4 in 16-byte form
ParseIP(str) ==
  IF str.kind = "ip" THEN [i \in 1..10 |-> 0] \o <<255, 255>> \o str.IP ELSE NilIP

NoSub == [called |-> FALSE, cidr |-> NilNet, n |-> 0, after |-> NilNet,
          ip |-> NilIP, panic |-> FALSE]

\* Config.Prepare with a link-address that parses: the served links, then
\* the DNS service address, given or the service CIDR's base plus
\* CLUSTER_DNS_IP.  service is the parsed service-cidr option (NilNet when
\* not given), dns the dns-service-ip option.
ConfigPrepare(option, address, service, dns) ==
  /\ ~cPrepared /\ cPrepareErr = ""
  /\ cOption' = option
  /\ cResponsible' = Responsible(option)
  /\ cClusterCIDR' = ParseCIDR(address).net
  /\ cServiceCIDR' = service
  /\ LET given == IF dns = EmptyStr THEN NilIP ELSE ParseIP(dns)
         sub   == SubIP(service, CLUSTER_DNS_IP)
     IN  IF dns # EmptyStr /\ given = NilIP
           THEN /\ cPrepareErr' = "invalid ip of coredns service"
                /\ cPrepared' = FALSE /\ cDNSServiceIP' = NilIP /\ UNCHANGED cSub
         ELSE IF given # NilIP \/ service = NilNet
           THEN /\ cPrepareErr' = "" /\ cPrepared' = TRUE
                /\ cDNSServiceIP' = given /\ UNCHANGED cSub
         ELSE /\ cSub' = [called |-> TRUE, cidr |-> service, n |-> CLUSTER_DNS_IP,
                          after |-> sub.cidr, ip |-> sub.ip, panic |-> sub.panic]
              /\ cPrepareErr' = IF sub.panic THEN "panic: index out of range" ELSE ""
              /\ cPrepared' = ~sub.panic
              /\ cDNSServiceIP' = IF sub.panic THEN NilIP ELSE sub.ip
  /\ UNCHANGED <<cMatch, notC>>

\* a SubIP call of its own
CallSubIP(cidr, n) ==
  /\ LET sub == SubIP(cidr, n)
     IN  cSub' = [called |-> TRUE, cidr |-> cidr, n |-> n,
                  after |-> sub.cidr, ip |-> sub.ip, panic |-> sub.panic]
  /\ UNCHANGED <<cOption, cPrepared, cResponsible, cClusterCIDR, cMatch,
                 cServiceCIDR, cDNSServiceIP, cPrepareErr, notC>>

\* a MatchLink call of the prepared configuration
ConfigMatchLink(obj) ==
  /\ cPrepared
  /\ LET r == MatchLink(cResponsible, cClusterCIDR, obj)
     IN  cMatch' = [called |-> TRUE, Name |-> obj.Name,
                    ClusterAddress |-> obj.ClusterAddress, ok |-> r.ok, ip |-> r.ip]
  /\ UNCHANGED <<cOption, cPrepared, cResponsible, cClusterCIDR,
                 cServiceCIDR, cDNSServiceIP, cPrepareErr, cSub, notC>>

\* served-links options: "all", "a", "a,b", "a, all", " all ,b", "b", "", "a,,b"
ServedOptions ==
  { All, <<"a">>, <<"a", ",", "b">>, <<"a", ",", " ">> \o All,
    <<" ">> \o All \o <<" ", ",", "b">>, <<"b">>, <<>>, <<"a", ",", ",", "b">> }
LinkAddresses == { CidrStr(IP_A, 24), CidrStr(IP_Far, 8) }
\* service-cidr: not given, an ordinary range, the topmost /29
Net_Top29 == Net(<<255, 255, 255, 248>>, 29)
ServiceCIDRs == { NilNet, Net(<<100, 64, 0, 0>>, 20), Net_Top29 }
DNSOptions == { EmptyStr, IpStr(<<100, 64, 0, 53>>), BadStr }
\* SubIP's arguments: no carry, a carry across one and two bytes, past the top
SubCIDRs == { Net(<<100, 64, 0, 0>>, 20), Net(<<10, 0, 255, 248>>, 29),
              Net(<<10, 255, 255, 255>>, 32), Net_Top29 }
SubNs == { 0, 1, CLUSTER_DNS_IP, 300, 70000 }
MatchObjects ==
  { [Name |-> n, ClusterAddress |-> ca] :
      n \in { <<"a">>, <<"b">>, <<"c">> },
      ca \in { CidrStr(IP_B, 24), CidrStr(IP_Far, 8), IpStr(IP_B), BadStr } }

-----------------------------------------------------------------------------
(* connectTask *)

\* times in seconds
RateMin == 10
RateMax == 600
RescheduleDelay == 600

\* utils.RateLimiter: exponential backoff between RateMin and RateMax
RateLimiterSucceeded(rate) == 0
RateLimiterFailed(rate) ==
  IF rate = 0 THEN RateMin
  ELSE IF 2 * rate > RateMax THEN RateMax ELSE 2 * rate

\* reconcile.Status: whether a further execution is requested, and when
NoStatus == [kind |-> "none", again |-> FALSE, after |-> 0]
Succeeded == [kind |-> "Succeeded", again |-> FALSE, after |-> 0]
RescheduleAfter(status, d) == [status EXCEPT !.again = TRUE, !.after = d]
DelayOnError(rate) ==
  [kind |-> "Delay", again |-> TRUE, after |-> RateLimiterFailed(rate)]

\* Execute that calls ratelimiter.Succeeded() whatever AssureTunnel returned
Execute_ResetsOnError(found, ok, rate) ==
  IF ~found THEN [rate |-> rate, status |-> Succeeded, assure |-> FALSE]
  ELSE IF ok THEN [rate   |-> RateLimiterSucceeded(rate), assure |-> TRUE,
                   status |-> RescheduleAfter(Succeeded, RescheduleDelay)]
  ELSE [rate   |-> RateLimiterFailed(RateLimiterSucceeded(rate)), assure |-> TRUE,
        status |-> DelayOnError(RateLimiterSucceeded(rate))]

\* Execute that asks to be run again when its link is gone
Execute_ReschedulesWhenGone(found, ok, rate) ==
  IF ~found THEN [rate |-> rate, assure |-> FALSE,
                  status |-> RescheduleAfter(Succeeded, RescheduleDelay)]
  ELSE IF ok THEN [rate   |-> RateLimiterSucceeded(rate), assure |-> TRUE,
                   status |-> RescheduleAfter(Succeeded, RescheduleDelay)]
  ELSE [rate |-> RateLimiterFailed(rate), assure |-> TRUE, status |-> DelayOnError(rate)]

\* connectTask.Execute: found is GetLink(name) # nil, ok is AssureTunnel
\* returning no error; the limiter's rate, the status returned and whether
\* AssureTunnel was called
Execute(found, ok, rate) ==
  IF ~found THEN [rate |-> rate, status |-> Succeeded, assure |-> FALSE]
  ELSE IF ok THEN [rate   |-> RateLimiterSucceeded(rate), assure |-> TRUE,
                   status |-> RescheduleAfter(Succeeded, RescheduleDelay)]
  ELSE [rate |-> RateLimiterFailed(rate), assure |-> TRUE, status |-> DelayOnError(rate)]

ConnectName == "a"

\* NewConnectTask, and the reconciler scheduling the task
NewConnectTask ==
  /\ ~tPending
  /\ tRuns < MaxRuns
  /\ tTask' = TRUE
  /\ tRate' = 0
  /\ tStatus' = NoStatus
  /\ tPending' = TRUE
  /\ UNCHANGED <<tRuns, lvars, notT>>

\* one execution of the task
ConnectExecute(ok) ==
  LET r == Execute(GetLink(this, ConnectName).found, ok, tRate)
  IN  /\ tPending
      /\ tRuns < MaxRuns
      /\ tRuns' = tRuns + 1
      /\ tRate' = r.rate
      /\ tStatus' = r.status
      /\ tPending' = r.status.again
      /\ lres' = [op |-> "Execute", name |-> ConnectName, err |-> r.assure /\ ~ok,
                  assured |-> r.assure]
      /\ UNCHANGED <<tTask, links, endpoints, clusteraddr, store, notT>>

ConnectSpecs ==
  { KubeLink("a", CidrStr(IP_B, 24), <<"b.example">>, GwStr, EmptyStr, <<>>),
    KubeLink("a", CidrStr(IP_C, 24), <<"c.example">>, GwStr, EmptyStr, <<>>) }

-----------------------------------------------------------------------------
(* Links.Visit *)

\* the orders in which a range over the map may fill the slice
Orders(S) ==
  { q \in [1..Cardinality(S) -> S] : \A i, j \in 1..Cardinality(S) : i # j => q[i] # q[j] }

\* a Visit that defers the Unlock to its return
LockAfterSnapshot_Deferred == "visit"

\* Visit calls this.lock.Unlock() once the slice is filled
LockAfterSnapshot == "free"

\* the slice a range over the map fills when it meets the names in order p
SliceIn(reg, p) ==
  LET present(n) == n \in DOMAIN reg.links
      q == SelectSeq(p, present)
  IN  [i \in 1..Len(q) |-> reg.links[q[i]]]

\* Visit up to the loop over the slice: Lock, copy the map's links, Unlock
VisitSnapshot(p) ==
  /\ vPc \in {"idle", "done"}
  /\ vCount < MaxVisits
  /\ vLock = "free"
  /\ vCount' = vCount + 1
  /\ vSnap' = SliceIn(this, p)
  /\ vAtSnap' = VisitLinks(this)
  /\ vSeen' = <<>>
  /\ vRets' = <<>>
  /\ vLock' = LockAfterSnapshot
  /\ vPc' = IF SliceIn(this, p) = <<>> THEN "done" ELSE "iter"
  /\ UNCHANGED <<lvars, notV>>

\* what a visitor does to the registry before it returns; every call but
\* "none" takes Links.lock
VisitorOps ==
  { [op |-> "none", name |-> ""],
    [op |-> "GetLink", name |-> "a"],
    [op |-> "RemoveLink", name |-> "a"],
    [op |-> "RemoveLink", name |-> "b"],
    [op |-> "UpdateLink", name |-> "b"],
    [op |-> "UpdateLinkInfo", name |-> "a"] }
VisitorLink == KubeLink("b", CidrStr(IP_C, 24), <<"c.example", "8088">>, GwStr, EmptyStr, <<>>)
VisitorEffect(reg, v) ==
  IF v.op = "RemoveLink" THEN removeLink(reg, v.name)
  ELSE IF v.op = "UpdateLink" THEN updateLink(reg, VisitorLink).this
  ELSE IF v.op = "UpdateLinkInfo"
    THEN updateLinkInfo(reg, v.name, Ptr(Access1), NilInfo, TRUE).this
  ELSE reg

\* one turn of Visit's loop: visitor(l) runs, calls into the registry and
\* returns ret; false, or the end of the slice, ends Visit
VisitorCall(v, ret) ==
  /\ vPc = "iter"
  /\ v.op # "none" => vLock = "free"
  /\ Install(VisitorEffect(this, v))
  /\ lres' = IF v.op = "none" THEN lres ELSE LRes(v.op, v.name, FALSE)
  /\ vSeen' = Append(vSeen, vSnap[Len(vSeen) + 1])
  /\ vRets' = Append(vRets, ret)
  /\ vPc' = IF ~ret \/ Len(vSeen) + 1 = Len(vSnap) THEN "done" ELSE "iter"
  /\ vLock' = IF ~ret \/ Len(vSeen) + 1 = Len(vSnap) THEN "free" ELSE vLock
  /\ UNCHANGED <<store, vSnap, vAtSnap, vCount, notV>>

VisitNames == {"a", "b", "c"}
VisitSpecs ==
  { KubeLink("a", CidrStr(IP_B, 24), <<"b.example">>, GwStr, EmptyStr, <<>>),
    KubeLink("b", CidrStr(IP_C, 24), <<"c.example">>, GwStr, EmptyStr, <<>>),
    KubeLink("c", CidrStr(IP_Far, 8), <<"far.example">>, GwStr, EmptyStr, <<>>) }

-----------------------------------------------------------------------------
(* Firewall chains: Link.GetIngressChain, Links.GetFirewallChains *)

CHAIN_PREFIX == "KUBELINK-"
LINKS_CHAIN == CHAIN_PREFIX \o "LINKS"
TABLE_LINKS_CHAIN == "mangle"
FIREWALL_CHAIN == CHAIN_PREFIX \o "FIREWALL"
TABLE_FIREWALL_CHAIN == "filter"
DROP_CHAIN == CHAIN_PREFIX \o "DROP"
TABLE_DROP_CHAIN == TABLE_FIREWALL_CHAIN
MARK_DROP_CHAIN == CHAIN_PREFIX \o "MARK-DROP"
TABLE_MARK_DROP_CHAIN == TABLE_LINKS_CHAIN
FW_LINK_CHAIN_PREFIX == CHAIN_PREFIX \o "FW-"
TABLE_LINK_CHAIN == TABLE_MARK_DROP_CHAIN

\* an iptables.Rule by its options: -m with its arguments, -s, -d (CIDRs
\* stand for their strings), -j and the target's arguments
Rule(m, src, dst, j, arg) == [m |-> m, s |-> src, d |-> dst, j |-> j, arg |-> arg]
NewChainRequest(table, chain, rules) == [table |-> table, chain |-> chain, rules |-> rules]

\* encodeName: upper-cased base64 of the first 12 bytes of the name's SHA-1,
\* a value that depends on the name alone
encodeName(name) == "B64(SHA1(" \o name \o "))"

\* tcp.IPtoCIDR: the address as a network of its own
IPtoCIDR(ip) == Net(ip, 8 * Len(ip))

\* GetIngressChain with the Allowed CIDRs before the Denied ones
GetIngressChain_AllowedFirst(link) ==
  IF ~IPRangeIsSet(link.Ingress) THEN <<>>
  ELSE << NewChainRequest(TABLE_LINK_CHAIN, FW_LINK_CHAIN_PREFIX \o encodeName(link.Name),
            << Rule("comment --comment firewall settings for link " \o link.Name,
                    NilNet, NilNet, "", "") >>
            \o [i \in 1..Len(link.Ingress.Allowed) |->
                  Rule("", NilNet, link.Ingress.Allowed[i], "RETURN", "")]
            \o [i \in 1..Len(link.Ingress.Denied) |->
                  Rule("", NilNet, link.Ingress.Denied[i], MARK_DROP_CHAIN, "")]
            \o << Rule("", NilNet, NilNet, MARK_DROP_CHAIN, "") >>) >>

\* Link.GetIngressChain: <<>> for nil, else the chain request
GetIngressChain(link) ==
  IF ~IPRangeIsSet(link.Ingress) THEN <<>>
  ELSE << NewChainRequest(TABLE_LINK_CHAIN, FW_LINK_CHAIN_PREFIX \o encodeName(link.Name),
            << Rule("comment --comment firewall settings for link " \o link.Name,
                    NilNet, NilNet, "", "") >>
            \o [i \in 1..Len(link.Ingress.Denied) |->
                  Rule("", NilNet, link.Ingress.Denied[i], MARK_DROP_CHAIN, "")]
            \o [i \in 1..Len(link.Ingress.Allowed) |->
                  Rule("", NilNet, link.Ingress.Allowed[i], "RETURN", "")]
            \o << Rule("", NilNet, NilNet, MARK_DROP_CHAIN, "") >>) >>

\* the loop over this.links, the links met in the order of slice: the link
\* chains and the rules of the LINKS chain
RECURSIVE CollectChains(_, _)
CollectChains(slice, n) ==
  IF n = 0 THEN [linkchains |-> <<>>, rules |-> <<>>]
  ELSE LET before == CollectChains(slice, n - 1)
           ing    == GetIngressChain(slice[n])
       IN  IF ing = <<>> THEN before
           ELSE [linkchains |-> before.linkchains \o ing,
                 rules |-> Append(before.rules,
                             Rule("", IPtoCIDR(slice[n].ClusterAddress.IP), NilNet,
                                  ing[1].chain, ""))]

\* Links.GetFirewallChains when the range meets the links in the order of slice
GetFirewallChains(slice) ==
  LET c == CollectChains(slice, Len(slice))
  IN  IF Len(c.rules) = 0 THEN <<>>
      ELSE << NewChainRequest(TABLE_DROP_CHAIN, DROP_CHAIN,
                << Rule("", NilNet, NilNet, "MARK", "--set-xmark 0x0/0x2000"),
                   Rule("", NilNet, NilNet, "DROP", "") >>),
              NewChainRequest(TABLE_MARK_DROP_CHAIN, MARK_DROP_CHAIN,
                << Rule("", NilNet, NilNet, "MARK", "--set-xmark 0x2000/0x2000") >>) >>
           \o c.linkchains
           \o << NewChainRequest(TABLE_LINKS_CHAIN, LINKS_CHAIN, c.rules),
                 NewChainRequest(TABLE_FIREWALL_CHAIN, FIREWALL_CHAIN,
                   << Rule("mark --mark 0x2000/0x2000", NilNet, NilNet, DROP_CHAIN, "") >>) >>

\* a call of GetFirewallChains, the map ranged over in the order p of names
CallGetFirewallChains(p) ==
  /\ fOut' = [called |-> TRUE, links |-> links,
              chains |-> GetFirewallChains(SliceIn(this, p))]
  /\ UNCHANGED notF

\* link.AllowIngress(dst) on the registry's link called name, as the read
\* loop calls it for a packet of that link
QueryIngress(name, dst) ==
  /\ name \in DOMAIN links
  /\ pDst' = dst
  /\ LET r == AllowIngress(links[name].Ingress, dst)
     IN  pOut' = [called |-> TRUE, err |-> FALSE, granted |-> r.granted, set |-> r.set,
                  link |-> links[name]]
  /\ UNCHANGED <<pIngress, notP>>

PolicyDenyAllow == << Deny(CidrStr(IP_Svc5, 32)), Allow(Net_Svc28), Deny(Net_Svc30) >>
FirewallSpecs ==
  { KubeLink(n, CidrStr(ca, 24), <<"b.example">>, GwStr, cidr, ing) :
      n \in {"a"}, ca \in {IP_B}, cidr \in {EmptyStr},
      ing \in { <<>>, PolicyS3, PolicyDenyAllow, << Deny(Net_Svc30) >> } }
  \cup
  { KubeLink(n, CidrStr(ca, 24), <<"c.example">>, GwStr, cidr, ing) :
      n \in {"b"}, ca \in {IP_C}, cidr \in {EmptyStr},
      ing \in { <<>>, << Allow(Net_Far8) >> } }

-----------------------------------------------------------------------------
(* Frames and the read loop: TunnelConnection.ReadPacket, serve *)

BufferSize == 17000
PACKET_TYPE_DATA == 0
PACKET_TYPE_HELLO == 1
ipv4Version == 4
ipv4HeaderLen == 20

\* Mux.clusterAddr: the node's own mesh address with the mesh mask
clusterAddr == Net(IP_A, 24)

\* a uint16 as two bytes, least significant first
HtoNs_LittleEndian(val) == << val % 256, (val \div 256) % 256 >>

\* tcp.HtoNs / tcp.NtoHs: a uint16 as two bytes, most significant first
HtoNs(val) == << (val \div 256) % 256, val % 256 >>
NtoHs(buf) == buf[1] * 256 + buf[2]

\* the bytes WritePacket puts on the wire for (ty, data)
Frame(ty, data) == Append(HtoNs(Len(data)), ty) \o data

\* ipv4.ParseHeader: [err, Src, Dst]
ParseHeader(b) ==
  IF Len(b) < ipv4HeaderLen \/ Len(b) < (b[1] % 16) * 4
    THEN [err |-> TRUE, Src |-> NilIP, Dst |-> NilIP]
    ELSE [err |-> FALSE, Src |-> SubSeq(b, 13, 16), Dst |-> SubSeq(b, 17, 20)]

\* ServeVerdict without the check against the node's own service CIDRs
ServeVerdict_NoLocalCheck(ty, packet, reg, local) ==
  IF Len(packet) = 0 THEN "empty"
  ELSE IF ty # PACKET_TYPE_DATA THEN "skip"
  ELSE IF packet[1] \div 16 # ipv4Version THEN "tun"
  ELSE LET header == ParseHeader(packet)
       IN  IF header.err THEN "drop"
           ELSE IF IPNetContains(clusterAddr, header.Src)
             THEN LET l == GetLinkForClusterAddress(reg, header.Src)
                      a == AllowIngress(l.link.Ingress, header.Dst)
                  IN  IF ~l.found THEN "drop"
                      ELSE IF ~a.granted THEN "drop"
                      ELSE "tun"
           ELSE IF header.Dst # clusterAddr.IP THEN "drop"
           ELSE "tun"

\* ServeVerdict that holds the destination against the node's service CIDRs
\* also when the node has none
ServeVerdict_LocalUnsetChecked(ty, packet, reg, local) ==
  IF Len(packet) = 0 THEN "empty"
  ELSE IF ty # PACKET_TYPE_DATA THEN "skip"
  ELSE IF packet[1] \div 16 # ipv4Version THEN "tun"
  ELSE LET header == ParseHeader(packet)
       IN  IF header.err THEN "drop"
           ELSE IF IPNetContains(clusterAddr, header.Src)
             THEN LET l == GetLinkForClusterAddress(reg, header.Src)
                      a == AllowIngress(l.link.Ingress, header.Dst)
                  IN  IF ~l.found THEN "drop"
                      ELSE IF ~a.granted THEN "drop"
                      ELSE IF ~a.set /\ ~CIDRListContains(local, header.Dst)
                        THEN "drop"
                      ELSE "tun"
           ELSE IF header.Dst # clusterAddr.IP THEN "drop"
           ELSE "tun"

\* ServeVerdict that parses every packet as IPv4
ServeVerdict_NoVersionCheck(ty, packet, reg, local) ==
  IF Len(packet) = 0 THEN "empty"
  ELSE IF ty # PACKET_TYPE_DATA THEN "skip"
  ELSE LET header == ParseHeader(packet)
       IN  IF header.err THEN "drop"
           ELSE IF IPNetContains(clusterAddr, header.Src)
             THEN LET l == GetLinkForClusterAddress(reg, header.Src)
                      a == AllowIngress(l.link.Ingress, header.Dst)
                  IN  IF ~l.found THEN "drop"
                      ELSE IF ~a.granted THEN "drop"
                      ELSE IF /\ ~a.set
                              /\ CIDRListIsSet(local)
                              /\ ~CIDRListContains(local, header.Dst)
                        THEN "drop"
                      ELSE "tun"
           ELSE IF header.Dst # clusterAddr.IP THEN "drop"
           ELSE "tun"

\* ServeVerdict without the test of the frame type
ServeVerdict_NoTypeCheck(ty, packet, reg, local) ==
  IF Len(packet) = 0 THEN "empty"
  ELSE IF packet[1] \div 16 # ipv4Version THEN "tun"
  ELSE LET header == ParseHeader(packet)
       IN  IF header.err THEN "drop"
           ELSE IF IPNetContains(clusterAddr, header.Src)
             THEN LET l == GetLinkForClusterAddress(reg, header.Src)
                      a == AllowIngress(l.link.Ingress, header.Dst)
                  IN  IF ~l.found THEN "drop"
                      ELSE IF ~a.granted THEN "drop"
                      ELSE IF /\ ~a.set
                              /\ CIDRListIsSet(local)
                              /\ ~CIDRListContains(local, header.Dst)
                        THEN "drop"
                      ELSE "tun"
           ELSE IF header.Dst # clusterAddr.IP THEN "drop"
           ELSE "tun"

\* ServeVerdict with the type looked at first and no test of n: packet[0] of
\* an empty DATA frame is an index out of range
ServeVerdict_NoEmptyCheck(ty, packet, reg, local) ==
  IF ty # PACKET_TYPE_DATA THEN "skip"
  ELSE IF Len(packet) = 0 THEN "panic: index out of range"
  ELSE ServeVerdict_NoTypeCheck(ty, packet, reg, local)

\* What serve does with a frame (n, ty, buffer[:n]) that ReadPacket returned
\* without error: "empty" and "skip" (continue), "drop" (continue after a
\* failed check), "tun" (handed to Mux.tun.Write).
ServeVerdict(ty, packet, reg, local) ==
  IF Len(packet) = 0 THEN "empty"
  ELSE IF ty # PACKET_TYPE_DATA THEN "skip"
  ELSE IF packet[1] \div 16 # ipv4Version THEN "tun"
  ELSE LET header == ParseHeader(packet)
       IN  IF header.err THEN "drop"
           ELSE IF IPNetContains(clusterAddr, header.Src)
             THEN LET l == GetLinkForClusterAddress(reg, header.Src)
                      a == AllowIngress(l.link.Ingress, header.Dst)
                  IN  IF ~l.found THEN "drop"
                      ELSE IF ~a.granted THEN "drop"
                      ELSE IF /\ ~a.set
                              /\ CIDRListIsSet(local)
                              /\ ~CIDRListContains(local, header.Dst)
                        THEN "drop"
                      ELSE "tun"
           ELSE IF header.Dst # clusterAddr.IP THEN "drop"
           ELSE "tun"

PanicShortWrite == "panic: packet length, but written less"

\* a notify that tells the registered handlers but not the Mux
notify_HandlersOnly(err, handlers) ==
  IF err = "EOF" THEN <<>>
  ELSE [i \in 1..Len(handlers) |-> [sink |-> handlers[i], err |-> err]]

\* Serve's notify(err): nothing for io.EOF, else Mux.Notify and then the
\* registered handlers in order
notify(err, handlers) ==
  IF err = "EOF" THEN <<>>
  ELSE << [sink |-> "mux", err |-> err] >>
         \o [i \in 1..Len(handlers) |-> [sink |-> handlers[i], err |-> err]]

\* conn.Read(p) returns 1..len(p) bytes: all of them, or a short read of half
ReadSizes(want) == { want, (want + 1) \div 2 }

\* Mux construction fixes the advertised service CIDRs; from then on the
\* tunnel's Serve reads frames.
StartServe(local, handlers) ==
  /\ sPc = "new"
  /\ muxLocal' = local
  /\ sHandlers' = handlers
  /\ sPc' = "hdr"
  /\ UNCHANGED <<sIn, sSent, sPos, sLbuf, sBuf, sTun, sLog, sRdErr, sErr, sNotes, lvars, notS>>

\* The peer writes a frame; its bytes are in flight when Serve starts.
PeerSend(frame, limit) ==
  /\ sPc = "new"
  /\ sSent < limit
  /\ sIn' = sIn \o frame
  /\ sSent' = sSent + 1
  /\ UNCHANGED <<muxLocal, sPos, sPc, sLbuf, sBuf, sTun, sLog, sRdErr, sErr,
                 sHandlers, sNotes, lvars, notS>>

\* ReadPacket, header: read(conn, lbuf[:]) takes k more bytes; with the third
\* byte the length is known: too large for the buffer is an error with n = 0,
\* which serve turns into io.EOF; a zero length needs no further Read.
ReadHeader ==
  /\ sPc = "hdr"
  /\ \E k \in ReadSizes(3 - Len(sLbuf)) :
     /\ sPos + k <= Len(sIn)
     /\ LET lbuf   == sLbuf \o SubSeq(sIn, sPos + 1, sPos + k)
            length == NtoHs(lbuf)
        IN  /\ sLbuf' = lbuf
            /\ sPos' = sPos + k
            /\ IF Len(lbuf) < 3
                 THEN UNCHANGED <<sPc, sRdErr, sErr, sNotes>>
                 ELSE IF length > BufferSize
                   THEN /\ sPc' = "done" /\ sRdErr' = "buffer too small" /\ sErr' = "EOF"
                        /\ sNotes' = sNotes \o notify("EOF", sHandlers)
                   ELSE /\ sPc' = IF length = 0 THEN "handle" ELSE "body"
                        /\ UNCHANGED <<sRdErr, sErr, sNotes>>
  /\ sBuf' = <<>>
  /\ UNCHANGED <<muxLocal, sIn, sSent, sTun, sLog, sHandlers, lvars, notS>>

\* ReadPacket, payload: read(conn, data[0:length])
ReadPayload ==
  /\ sPc = "body"
  /\ \E k \in ReadSizes(NtoHs(sLbuf) - Len(sBuf)) :
     /\ sPos + k <= Len(sIn)
     /\ sBuf' = sBuf \o SubSeq(sIn, sPos + 1, sPos + k)
     /\ sPos' = sPos + k
     /\ sPc' = IF Len(sBuf) + k = NtoHs(sLbuf) THEN "handle" ELSE "body"
  /\ UNCHANGED <<muxLocal, sIn, sSent, sLbuf, sTun, sLog, sRdErr, sErr,
                 sHandlers, sNotes, lvars, notS>>

\* conn.Read fails: io.EOF once the peer has closed and everything is read,
\* or a connection error at the first Read of a header or of a payload.
\* In the header ReadPacket returns (0, 0, err) and serve returns io.EOF;
\* in the payload it returns (length, ty, err) and serve returns err.
ReadFails(e) ==
  /\ \/ sPc = "hdr" /\ (IF e = "EOF" THEN sPos = Len(sIn) ELSE sLbuf = <<>>)
     \/ sPc = "body" /\ (IF e = "EOF" THEN sPos = Len(sIn) ELSE sBuf = <<>>)
  /\ sRdErr' = e
  /\ sErr' = IF sPc = "hdr" THEN "EOF" ELSE e
  /\ sNotes' = sNotes \o notify(IF sPc = "hdr" THEN "EOF" ELSE e, sHandlers)
  /\ sPc' = "done"
  /\ UNCHANGED <<muxLocal, sIn, sSent, sPos, sLbuf, sBuf, sTun, sLog, sHandlers, lvars, notS>>

\* serve's loop body for a frame read without error; w is the outcome of
\* Mux.tun.Write when the frame gets that far ("" = written).  When serve
\* returns, Serve notifies; a panic leaves Serve without notify.
Handle(w) ==
  /\ sPc = "handle"
  /\ LET ty  == sLbuf[3]
         out == ServeVerdict(ty, sBuf, this, muxLocal)
     IN  /\ sLog' = Append(sLog, [ty |-> ty, pkt |-> sBuf, out |-> out])
         /\ IF out = "tun" /\ w # ""
              THEN /\ sPc' = "done" /\ sErr' = w /\ UNCHANGED sTun
                   /\ sNotes' = IF w = PanicShortWrite THEN sNotes
                                 ELSE sNotes \o notify(w, sHandlers)
              ELSE /\ w = ""
                   /\ sPc' = "hdr"
                   /\ sTun' = IF out = "tun" THEN Append(sTun, sBuf) ELSE sTun
                   /\ UNCHANGED <<sErr, sNotes>>
  /\ sLbuf' = <<>>
  /\ sBuf' = <<>>
  /\ UNCHANGED <<muxLocal, sIn, sSent, sPos, sRdErr, sHandlers, lvars, notS>>

\* The reconciler declares the peer's link before the tunnel serves.
DeclareLink(klink) ==
  /\ sPc = "new"
  /\ links = EmptyMap
  /\ UpdateLink(klink)

ConnErrors == { "EOF", "connection reset" }
\* tun.Write: written, an error, or fewer bytes than given (serve panics)
TunOutcomes == { "", "EOF", "tun write failed", PanicShortWrite }
HandlerLists == { <<>>, <<"h1", "h2">> }

\* IPv4 packet without options: version 4, IHL 5, then src at 12, dst at 16
IPv4Packet(src, dst) == <<69, 0, 0, 20, 0, 0, 0, 0, 64, 17, 0, 0>> \o src \o dst

F_B_Svc3   == Frame(PACKET_TYPE_DATA, IPv4Packet(IP_B, IP_Svc3))
F_B_Svc5   == Frame(PACKET_TYPE_DATA, IPv4Packet(IP_B, IP_Svc5))
F_B_Far    == Frame(PACKET_TYPE_DATA, IPv4Packet(IP_B, IP_Far))
F_C_Svc3   == Frame(PACKET_TYPE_DATA, IPv4Packet(IP_C, IP_Svc3))
F_Far_A    == Frame(PACKET_TYPE_DATA, IPv4Packet(IP_Far, IP_A))
F_Far_Svc3 == Frame(PACKET_TYPE_DATA, IPv4Packet(IP_Far, IP_Svc3))
F_NotV4    == Frame(PACKET_TYPE_DATA, <<96, 1, 2>>)
F_ShortV4  == Frame(PACKET_TYPE_DATA, <<69, 0>>)
F_Empty    == Frame(PACKET_TYPE_DATA, <<>>)
F_Empty7   == Frame(7, <<>>)
\* a version 6 first byte before the addresses of a mesh packet no link sends
F_V6Mesh   == Frame(PACKET_TYPE_DATA, [IPv4Packet(IP_C, IP_Far) EXCEPT ![1] = 96])
\* version 4 with a header length of 24 in a packet of 20 bytes
F_BadIHL   == Frame(PACKET_TYPE_DATA, [IPv4Packet(IP_B, IP_Svc3) EXCEPT ![1] = 70])
F_Type7    == Frame(7, <<0, 0, 0, 0>>)
\* headers that declare 17001 bytes
F_Big      == Append(HtoNs(BufferSize + 1), PACKET_TYPE_DATA)
F_Big7     == Append(HtoNs(BufferSize + 1), 7)

-----------------------------------------------------------------------------
(* Write side of a tunnel: WritePacket, write, Close *)

MaxPacketLen == 65535
Writers == 1..MaxWriters
ErrClosed == "use of closed network connection"

\* a payload WritePacket refuses
TooLarge == [i \in 1..(MaxPacketLen + 1) |-> 0]

\* what writer w may hand to WritePacket
WriterFrames(w) ==
  { [ty |-> PACKET_TYPE_DATA,  data |-> <<16 * w + 1, 16 * w + 2>>],
    [ty |-> PACKET_TYPE_HELLO, data |-> <<16 * w + 3>>],
    [ty |-> PACKET_TYPE_DATA,  data |-> <<>>],
    [ty |-> PACKET_TYPE_DATA,  data |-> TooLarge] }

\* conn.Write(p) without error: all of p, or a short write of half of it
WriteSizes(want) == { want, (want + 1) \div 2 }

\* a mutex that everybody gets at once
WLockFree_NoMutex(holder) == TRUE

\* this.wlock.Lock() returns when nobody holds the mutex
WLockFree(holder) == holder = 0

\* the slice writer w is handing to write: append(lbuf, ty), then data
WSlice(w) ==
  IF wPc[w] = "hdr" THEN Append(HtoNs(Len(wArg[w].data)), wArg[w].ty)
  ELSE wArg[w].data

\* WritePacket up to wlock.Lock()
WritePacket(w, ty, data) ==
  /\ wPc[w] = "idle"
  /\ IF Len(data) > MaxPacketLen
       THEN /\ wPc' = [wPc EXCEPT ![w] = "done"]
            /\ wErr' = [wErr EXCEPT ![w] = "packet too large"]
            /\ UNCHANGED wArg
       ELSE /\ wPc' = [wPc EXCEPT ![w] = "lock"]
            /\ wArg' = [wArg EXCEPT ![w] = [ty |-> ty, data |-> data]]
            /\ UNCHANGED wErr
  /\ UNCHANGED <<wConn, wLock, wOff, wWire, wOrder, cCalls, cRes, notW>>

\* this.wlock.Lock()
WLock(w) ==
  /\ wPc[w] = "lock"
  /\ WLockFree(wLock)
  /\ wLock' = w
  /\ wPc' = [wPc EXCEPT ![w] = "hdr"]
  /\ wOff' = [wOff EXCEPT ![w] = 0]
  /\ wOrder' = Append(wOrder, w)
  /\ UNCHANGED <<wConn, wArg, wErr, wWire, cCalls, cRes, notW>>

\* one w.Write(data[start:]) of write that returns n and no error; when the
\* slice is complete WritePacket goes on to the payload or returns nil, and
\* the deferred Unlock runs
ConnWrite(w, n) ==
  /\ wPc[w] \in {"hdr", "data"}
  /\ wConn = "open"
  /\ LET buf == WSlice(w)
         rem == Len(buf) - wOff[w]
     IN  /\ n \in WriteSizes(rem)
         /\ wWire' = wWire \o SubSeq(buf, wOff[w] + 1, wOff[w] + n)
         /\ IF wOff[w] + n < Len(buf)
              THEN /\ wOff' = [wOff EXCEPT ![w] = wOff[w] + n]
                   /\ UNCHANGED <<wPc, wLock>>
              ELSE /\ wOff' = [wOff EXCEPT ![w] = 0]
                   /\ IF wPc[w] = "hdr" /\ Len(wArg[w].data) > 0
                        THEN wPc' = [wPc EXCEPT ![w] = "data"] /\ UNCHANGED wLock
                        ELSE wPc' = [wPc EXCEPT ![w] = "done"] /\ wLock' = 0
  /\ UNCHANGED <<wConn, wArg, wErr, wOrder, cCalls, cRes, notW>>

\* one w.Write that fails after k bytes: write and WritePacket return the
\* error, the deferred Unlock runs.  No deadline is ever set on the
\* connection, so a failed Write leaves a connection that fails for good.
ConnWriteFails(w, k) ==
  /\ wPc[w] \in {"hdr", "data"}
  /\ LET buf == WSlice(w)
         rem == Len(buf) - wOff[w]
     IN  /\ k \in (IF wConn = "open" THEN {0, rem \div 2} ELSE {0})
         /\ wWire' = wWire \o SubSeq(buf, wOff[w] + 1, wOff[w] + k)
  /\ wConn' = IF wConn = "open" THEN "broken" ELSE wConn
  /\ wErr' = [wErr EXCEPT ![w] = IF wConn = "closed" THEN ErrClosed ELSE "write failed"]
  /\ wPc' = [wPc EXCEPT ![w] = "done"]
  /\ wLock' = 0
  /\ UNCHANGED <<wArg, wOff, wOrder, cCalls, cRes, notW>>

\* TunnelConnection.Close: return this.conn.Close(); e is what the
\* connection's first Close returns
TunnelClose(e) ==
  /\ cCalls < MaxCloses
  /\ cCalls' = cCalls + 1
  /\ cRes' = Append(cRes, IF wConn = "closed" THEN ErrClosed ELSE e)
  /\ wConn' = "closed"
  /\ UNCHANGED <<wLock, wPc, wArg, wOff, wErr, wWire, wOrder, notW>>

CloseOutcomes == {"", "close failed"}

-----------------------------------------------------------------------------
(* The once-closing listener *)

Closers == 1..MaxClosers

\* a Once whose slow path runs f without looking at done
onceRuns_NoCheck(done) == TRUE

\* sync.Once.doSlow: f runs if done is still 0 under the mutex
onceRuns(done) == done = 0

\* onceCloseListener.Close is entered
ListenerClose(t) ==
  /\ oPc[t] = "idle"
  /\ oN[t] < MaxCloseCalls
  /\ oN' = [oN EXCEPT ![t] = oN[t] + 1]
  /\ oPc' = [oPc EXCEPT ![t] = "do"]
  /\ UNCHANGED <<oDone, oMu, oCloseErr, oCalls, oLErr, oRet, notO>>

\* oc.once.Do: the fast path loads done
OnceDo(t) ==
  /\ oPc[t] = "do"
  /\ oPc' = [oPc EXCEPT ![t] = IF oDone = 0 THEN "slow" ELSE "ret"]
  /\ UNCHANGED <<oDone, oMu, oCloseErr, oCalls, oLErr, oN, oRet, notO>>

\* doSlow: o.m.Lock()
OnceLock(t) ==
  /\ oPc[t] = "slow"
  /\ oMu = 0
  /\ oMu' = t
  /\ oPc' = [oPc EXCEPT ![t] = "locked"]
  /\ UNCHANGED <<oDone, oCloseErr, oCalls, oLErr, oN, oRet, notO>>

\* doSlow under the mutex: oc.close() sets closeErr from the wrapped
\* listener's Close (e the first time, ErrClosed afterwards), or nothing runs
OnceRun(t, e) ==
  /\ oPc[t] = "locked"
  /\ IF onceRuns(oDone)
       THEN /\ oCalls' = oCalls + 1
            /\ oCloseErr' = IF oCalls = 0 THEN e ELSE ErrClosed
            /\ oLErr' = IF oCalls = 0 THEN e ELSE oLErr
            /\ oPc' = [oPc EXCEPT ![t] = "ran"]
       ELSE /\ e = ""
            /\ oPc' = [oPc EXCEPT ![t] = "skipped"]
            /\ UNCHANGED <<oCalls, oCloseErr, oLErr>>
  /\ UNCHANGED <<oDone, oMu, oN, oRet, notO>>

\* doSlow's deferred calls: done is stored after f, then the mutex is freed
OnceUnlock(t) ==
  /\ oPc[t] \in {"ran", "skipped"}
  /\ oDone' = IF oPc[t] = "ran" THEN 1 ELSE oDone
  /\ oMu' = 0
  /\ oPc' = [oPc EXCEPT ![t] = "ret"]
  /\ UNCHANGED <<oCloseErr, oCalls, oLErr, oN, oRet, notO>>

\* return oc.closeErr
ListenerReturn(t) ==
  /\ oPc[t] = "ret"
  /\ oRet' = [oRet EXCEPT ![t] = Append(oRet[t], oCloseErr)]
  /\ oPc' = [oPc EXCEPT ![t] = "idle"]
  /\ UNCHANGED <<oDone, oMu, oCloseErr, oCalls, oLErr, oN, notO>>

-----------------------------------------------------------------------------
(* The handshake: NewTunnelConnection on both ends of one connection *)

Sides == {"A", "B"}
Peer(x) == IF x = "A" THEN "B" ELSE "A"

\* the fields of Mux the tunnel connection reads
Mux(addr, port, local, handler) ==
  [clusterAddr |-> addr, port |-> port, local |-> local, connectionHandler |-> handler]

\* NewConnectionHello: nothing set; the unset cluster CIDR is the anonymous ::/0
NewConnectionHello ==
  [ClusterCIDR |-> Net(IPv6zero, 0), Port |-> 0, CIDR |-> Net(IPv6zero, 0),
   Extensions |-> <<>>]

\* createHello: cluster address, port and first service CIDR of the mux (no
\* extension handler is registered)
createHello(mux) ==
  [ClusterCIDR |-> mux.clusterAddr,
   Port        |-> mux.port,
   CIDR        |-> IF Len(mux.local) > 0 THEN mux.local[1] ELSE Net(IPv6zero, 0),
   Extensions  |-> <<>>]

\* the HELLO payload: version, cluster address (16 bytes) and prefix length,
\* port, service address (16 bytes) and prefix length; then the extensions
HelloVersion == 1
HelloHeaderLen == 37
To16(ip) == IF Len(ip) = 4 THEN [i \in 1..10 |-> 0] \o <<255, 255>> \o ip ELSE ip
From16(b) ==
  IF SubSeq(b, 1, 12) = [i \in 1..10 |-> 0] \o <<255, 255>> THEN SubSeq(b, 13, 16) ELSE b

RECURSIVE ExtData(_)
ExtData(exts) ==
  IF exts = <<>> THEN <<>>
  ELSE HtoNs(exts[1].id) \o HtoNs(Len(exts[1].value)) \o exts[1].value
         \o ExtData(Tail(exts))

HelloData(h) ==
  <<HelloVersion>> \o To16(h.ClusterCIDR.IP) \o <<h.ClusterCIDR.Bits>>
    \o HtoNs(h.Port) \o To16(h.CIDR.IP) \o <<h.CIDR.Bits>> \o ExtData(h.Extensions)

\* extension records id[u16] | len[u16] | value; err on truncation
RECURSIVE ParseExt(_)
ParseExt(b) ==
  IF b = <<>> THEN [err |-> FALSE, exts |-> <<>>]
  ELSE IF Len(b) < 4 \/ Len(b) < 4 + NtoHs(SubSeq(b, 3, 4))
    THEN [err |-> TRUE, exts |-> <<>>]
  ELSE LET n    == NtoHs(SubSeq(b, 3, 4))
           rest == ParseExt(SubSeq(b, 5 + n, Len(b)))
       IN  [err  |-> rest.err,
            exts |-> << [id |-> NtoHs(b), value |-> SubSeq(b, 5, 4 + n)] >> \o rest.exts]

\* ParseConnectionHello(mux, &header, data[len(header):])
ParseConnectionHello(header, rest) ==
  LET e == ParseExt(rest)
  IN  [err   |-> IF e.err THEN "invalid hello packet" ELSE "",
       hello |-> [ClusterCIDR |-> Net(From16(SubSeq(header, 2, 17)), header[18]),
                  Port        |-> NtoHs(SubSeq(header, 19, 20)),
                  CIDR        |-> Net(From16(SubSeq(header, 21, 36)), header[37]),
                  Extensions  |-> e.exts]]

\* parseHelloPacket
parseHelloPacket(data) ==
  IF Len(data) < HelloHeaderLen
    THEN [err |-> "hello packet too short", hello |-> NewConnectionHello]
  ELSE ParseConnectionHello(SubSeq(data, 1, HelloHeaderLen),
                            SubSeq(data, HelloHeaderLen + 1, Len(data)))

\* readHello that takes whatever frame comes first for the hello
readHello_AnyType(fr) ==
  IF Len(fr.data) > BufferSize
    THEN [err |-> "buffer too small", hello |-> NewConnectionHello]
  ELSE parseHelloPacket(fr.data)

\* readHello on the frame fr that ReadPacket finds on the connection
readHello(fr) ==
  IF Len(fr.data) > BufferSize
    THEN [err |-> "buffer too small", hello |-> NewConnectionHello]
  ELSE IF fr.ty # PACKET_TYPE_HELLO
    THEN [err |-> "unexpected packet instead of hello handshake",
          hello |-> NewConnectionHello]
  ELSE parseHelloPacket(fr.data)

ErrExpected == "cluster address mismatch: got other than expected"
ErrForeign  == "cluster address mismatch: own address not in foreign range"
ErrLocal    == "cluster address mismatch: remote address not in local range"

\* the checks without the comparison with the expected link
CheckHello_NoLinkCheck(mux, link, hello) ==
  LET cidr == hello.ClusterCIDR
  IN  IF cidr.IP = IPv6zero THEN ""
      ELSE IF ~IPNetContains(cidr, mux.clusterAddr.IP) THEN ErrForeign
      ELSE IF ~IPNetContains(mux.clusterAddr, cidr.IP) THEN ErrLocal
      ELSE ""

\* the checks without the one of the remote address against the local range
CheckHello_NoLocalRange(mux, link, hello) ==
  LET cidr == hello.ClusterCIDR
  IN  IF cidr.IP = IPv6zero THEN ""
      ELSE IF link # NilNet /\ link.IP # cidr.IP THEN ErrExpected
      ELSE IF ~IPNetContains(cidr, mux.clusterAddr.IP) THEN ErrForeign
      ELSE ""

\* the checks with the expected link compared before the anonymous address
\* is looked for
CheckHello_LinkBeforeZero(mux, link, hello) ==
  LET cidr == hello.ClusterCIDR
  IN  IF link # NilNet /\ link.IP # cidr.IP THEN ErrExpected
      ELSE IF cidr.IP = IPv6zero THEN ""
      ELSE IF ~IPNetContains(cidr, mux.clusterAddr.IP) THEN ErrForeign
      ELSE IF ~IPNetContains(mux.clusterAddr, cidr.IP) THEN ErrLocal
      ELSE ""

\* NewTunnelConnection's checks of the remote hello; "" = accepted
CheckHello(mux, link, hello) ==
  LET cidr == hello.ClusterCIDR
  IN  IF cidr.IP = IPv6zero THEN ""
      ELSE IF link # NilNet /\ link.IP # cidr.IP THEN ErrExpected
      ELSE IF ~IPNetContains(cidr, mux.clusterAddr.IP) THEN ErrForeign
      ELSE IF ~IPNetContains(mux.clusterAddr, cidr.IP) THEN ErrLocal
      ELSE ""

NotRead  == [st |-> "none", hello |-> NewConnectionHello, err |-> ""]
NoResult == [tunnel |-> FALSE, hello |-> FALSE, err |-> ""]

\* NewTunnelConnection up to handshake's go func: the hello is created, the
\* writer goroutine is started, readHello begins
StartTunnelConnection(x, mux, link) ==
  /\ hPc[x] = "idle"
  /\ hPc' = [hPc EXCEPT ![x] = "shake"]
  /\ hMux' = [hMux EXCEPT ![x] = mux]
  /\ hLink' = [hLink EXCEPT ![x] = link]
  /\ hW' = [hW EXCEPT ![x] = "pending"]
  /\ hR' = [hR EXCEPT ![x] = [NotRead EXCEPT !.st = "pending"]]
  /\ UNCHANGED <<hConn, hOut, hRes, hAccess, notH>>

\* the goroutine's writeHello: WritePacket(PACKET_TYPE_HELLO, hello.Data())
writeHello(x) ==
  /\ hW[x] = "pending"
  /\ hConn = "open"
  /\ hOut' = [hOut EXCEPT ![x] =
       Append(@, [ty |-> PACKET_TYPE_HELLO, data |-> HelloData(createHello(hMux[x]))])]
  /\ hW' = [hW EXCEPT ![x] = "ok"]
  /\ UNCHANGED <<hConn, hPc, hMux, hLink, hR, hRes, hAccess, notH>>

\* ... on a connection that is gone
writeHelloFails(x) ==
  /\ hW[x] = "pending"
  /\ hConn = "closed"
  /\ hW' = [hW EXCEPT ![x] = "err"]
  /\ UNCHANGED <<hConn, hPc, hMux, hLink, hR, hOut, hRes, hAccess, notH>>

\* readHello gets the first frame the peer has written
ReadHello(x) ==
  /\ hR[x].st = "pending"
  /\ hOut[Peer(x)] # <<>>
  /\ LET r == readHello(hOut[Peer(x)][1])
     IN  hR' = [hR EXCEPT ![x] =
                  [st |-> IF r.err = "" THEN "ok" ELSE "err", hello |-> r.hello, err |-> r.err]]
  /\ UNCHANGED <<hConn, hPc, hMux, hLink, hW, hOut, hRes, hAccess, notH>>

\* readHello's ReadPacket fails: the connection ended before a frame came
ReadHelloFails(x) ==
  /\ hR[x].st = "pending"
  /\ hConn = "closed"
  /\ hOut[Peer(x)] = <<>>
  /\ hR' = [hR EXCEPT ![x] = [st |-> "err", hello |-> NewConnectionHello, err |-> "EOF"]]
  /\ UNCHANGED <<hConn, hPc, hMux, hLink, hW, hOut, hRes, hAccess, notH>>

\* a handshake that reports the write error before the read error
handshake_WriteErrorFirst(rerr, werr) ==
  IF werr # "" THEN "cannot finish connection handshake: " \o werr
  ELSE IF rerr # "" THEN "cannot finish connection handshake: " \o rerr
  ELSE ""

\* handshake after wg.Wait(): the error it returns for readHello's error
\* rerr and writeHello's error werr ("" for nil)
handshake(rerr, werr) ==
  IF rerr # "" THEN "cannot finish connection handshake: " \o rerr
  ELSE IF werr # "" THEN "cannot finish connection handshake: " \o werr
  ELSE ""

\* wg.Wait() is over: handshake returns, NewTunnelConnection checks the
\* remote hello, dispatches it to the access handler and returns
ReturnTunnelConnection(x) ==
  /\ hPc[x] = "shake"
  /\ hW[x] \in {"ok", "err"}
  /\ hR[x].st \in {"ok", "err"}
  /\ hPc' = [hPc EXCEPT ![x] = "done"]
  /\ IF handshake(hR[x].err, IF hW[x] = "err" THEN ErrClosed ELSE "") # ""
       THEN /\ hRes' = [hRes EXCEPT ![x] =
                 [tunnel |-> FALSE, hello |-> FALSE,
                  err |-> handshake(hR[x].err, IF hW[x] = "err" THEN ErrClosed ELSE "")]]
            /\ UNCHANGED hAccess
       ELSE LET err == CheckHello(hMux[x], hLink[x], hR[x].hello)
            IN  IF err # ""
                  THEN /\ hRes' = [hRes EXCEPT ![x] =
                            [tunnel |-> FALSE, hello |-> TRUE, err |-> err]]
                       /\ UNCHANGED hAccess
                  ELSE /\ hRes' = [hRes EXCEPT ![x] =
                            [tunnel |-> TRUE, hello |-> TRUE, err |-> ""]]
                       /\ hAccess' = IF hMux[x].connectionHandler
                                       THEN [hAccess EXCEPT ![x] = Append(@, hR[x].hello)]
                                       ELSE hAccess
  /\ UNCHANGED <<hConn, hMux, hLink, hW, hR, hOut, notH>>

\* the owner of a returned tunnel writes a DATA frame
SendData(x, data) ==
  /\ hPc[x] = "done"
  /\ hRes[x].tunnel
  /\ hConn = "open"
  /\ Len(hOut[x]) < 1 + MaxTunnelData
  /\ hOut' = [hOut EXCEPT ![x] = Append(@, [ty |-> PACKET_TYPE_DATA, data |-> data])]
  /\ UNCHANGED <<hConn, hPc, hMux, hLink, hW, hR, hRes, hAccess, notH>>

\* the peer at B is not a broker: it writes what it likes
RogueSend(fr) ==
  /\ hPc["B"] \in {"idle", "rogue"}
  /\ hConn = "open"
  /\ Len(hOut["B"]) < MaxRogueFrames
  /\ hPc' = [hPc EXCEPT !["B"] = "rogue"]
  /\ hOut' = [hOut EXCEPT !["B"] = Append(@, fr)]
  /\ UNCHANGED <<hConn, hMux, hLink, hW, hR, hRes, hAccess, notH>>

\* the connection ends: a side that failed closes it, or the network does
ConnDrop ==
  /\ hConn = "open"
  /\ hConn' = "closed"
  /\ UNCHANGED <<hPc, hMux, hLink, hW, hR, hOut, hRes, hAccess, notH>>

\* the brokers of the scenarios
IP_B16 == <<192, 168, 1, 12>>
MuxA == Mux(Net(IP_A, 24), 8088, << Net(<<100, 64, 0, 0>>, 20) >>, TRUE)
MuxesB ==
  { Mux(Net(IP_B, 24), 8088, << Net(<<100, 64, 16, 0>>, 20) >>, TRUE),
    Mux(Net(IP_C, 24), 8089, <<>>, FALSE),
    Mux(Net(IP_B, 31), 8088, <<>>, TRUE),
    Mux(Net(IP_B16, 16), 8088, <<>>, TRUE) }
ExpectedByA == { NilNet, Net(IP_B, 24) }
ExpectedByB == { NilNet, Net(IP_A, 24), Net(IP_C, 24) }

BigPayload == [i \in 1..(BufferSize + 1) |-> 0]
RogueFrames ==
  { [ty |-> PACKET_TYPE_DATA,  data |-> HelloData(createHello(Mux(Net(IP_B, 24), 8088, <<>>, TRUE)))],
    [ty |-> PACKET_TYPE_HELLO, data |-> HelloData(NewConnectionHello)],
    [ty |-> PACKET_TYPE_HELLO, data |-> <<1, 2, 3>>],
    [ty |-> PACKET_TYPE_HELLO, data |-> HelloData(createHello(MuxA)) \o <<0, 9, 0, 2, 7>>],
    [ty |-> PACKET_TYPE_HELLO, data |-> BigPayload],
    [ty |-> 7, data |-> <<>>] }

-----------------------------------------------------------------------------
(* Specifications *)

\* The state after construction: nothing evaluated, NewLinks' empty maps,
\* a tunnel that has not started to serve.
Init ==
  /\ pIngress = <<>>
  /\ pDst = IP_A
  /\ pOut = PNotCalled
  /\ links = EmptyMap
  /\ endpoints = EmptyMap
  /\ clusteraddr = EmptyMap
  /\ store = {}
  /\ lres = LRes("none", "", FALSE)
  /\ muxLocal = <<>>
  /\ sIn = <<>>
  /\ sSent = 0
  /\ sPos = 0
  /\ sPc = "new"
  /\ sLbuf = <<>>
  /\ sBuf = <<>>
  /\ sTun = <<>>
  /\ sLog = <<>>
  /\ sRdErr = ""
  /\ sErr = ""
  /\ sHandlers = <<>>
  /\ sNotes = <<>>
  /\ wConn = "open"
  /\ wLock = 0
  /\ wPc = [w \in Writers |-> "idle"]
  /\ wArg = [w \in Writers |-> [ty |-> PACKET_TYPE_DATA, data |-> <<>>]]
  /\ wOff = [w \in Writers |-> 0]
  /\ wErr = [w \in Writers |-> ""]
  /\ wWire = <<>>
  /\ wOrder = <<>>
  /\ cCalls = 0
  /\ cRes = <<>>
  /\ oDone = 0
  /\ oMu = 0
  /\ oCloseErr = ""
  /\ oCalls = 0
  /\ oLErr = ""
  /\ oPc = [t \in Closers |-> "idle"]
  /\ oN = [t \in Closers |-> 0]
  /\ oRet = [t \in Closers |-> <<>>]
  /\ hConn = "open"
  /\ hPc = [x \in Sides |-> "idle"]
  /\ hMux = [x \in Sides |-> MuxA]
  /\ hLink = [x \in Sides |-> NilNet]
  /\ hW = [x \in Sides |-> "none"]
  /\ hR = [x \in Sides |-> NotRead]
  /\ hOut = [x \in Sides |-> <<>>]
  /\ hRes = [x \in Sides |-> NoResult]
  /\ hAccess = [x \in Sides |-> <<>>]
  /\ vLock = "free"
  /\ vPc = "idle"
  /\ vSnap = <<>>
  /\ vAtSnap = {}
  /\ vSeen = <<>>
  /\ vRets = <<>>
  /\ vCount = 0
  /\ tTask = FALSE
  /\ tRate = 0
  /\ tStatus = NoStatus
  /\ tPending = FALSE
  /\ tRuns = 0
  /\ gHeap = <<>>
  /\ gReg = EmptyRegistry
  /\ gHeld = NoPointer
  /\ cOption = <<>>
  /\ cPrepared = FALSE
  /\ cResponsible = {}
  /\ cClusterCIDR = NilNet
  /\ cMatch = NoMatch
  /\ cServiceCIDR = NilNet
  /\ cDNSServiceIP = NilIP
  /\ cPrepareErr = ""
  /\ cSub = NoSub
  /\ fOut = [called |-> FALSE, links |-> EmptyMap, chains |-> <<>>]

\* the ingress policy alone
NextPolicy == \E list \in IngressLists, dst \in DstIPs : LinkAllowIngress(list, dst)
SpecPolicy == Init /\ [][NextPolicy]_vars

\* the link registry alone
NextLinks ==
  \/ \E k \in LinkSpecs : UpdateLink(k)
  \/ \E l \in ValidLinks : ReplaceLink(l)
  \/ \E n \in LinkNames : RemoveLink(n)
  \/ \E n \in LinkNames, ok \in BOOLEAN :
       RegisterLink(n, Net(IP_C, 24), "c.example", Net(<<100, 64, 32, 0>>, 20), ok)
SpecLinks == Init /\ [][NextLinks]_vars

\* the registry with the advertisements of the peers
NextForeign ==
  \/ \E k \in ForeignSpecs : UpdateLink(k)
  \/ \E n \in LinkNames : RemoveLink(n)
  \/ \E a \in AccessArgs, d \in DNSArgs, p \in BOOLEAN : UpdateLinkInfo("a", a, d, p)
  \/ \E a \in AccessArgs, d \in DNSArgs : LinkInfoUpdated("a", a, d)
SpecForeign == Init /\ [][NextForeign]_vars

\* the firewall requests of a changing registry
NextFirewall ==
  \/ \E k \in FirewallSpecs : UpdateLink(k)
  \/ \E n \in LinkNames : RemoveLink(n)
  \/ \E p \in Orders(LinkNames) : CallGetFirewallChains(p)
  \/ \E n \in LinkNames, dst \in DstIPs : QueryIngress(n, dst)
SpecFirewall == Init /\ [][NextFirewall]_vars

\* the configuration and the links it is asked about
NextConfig ==
  \/ \E o \in ServedOptions, addr \in LinkAddresses, svc \in ServiceCIDRs,
          dns \in DNSOptions : ConfigPrepare(o, addr, svc, dns)
  \/ \E cidr \in SubCIDRs, n \in SubNs : CallSubIP(cidr, n)
  \/ \E obj \in MatchObjects : ConfigMatchLink(obj)
SpecConfig == Init /\ [][NextConfig]_vars

\* readers holding Link pointers while the registry is updated
NextObjects ==
  \/ \E k \in ObjectSpecs : UpdateLinkObject(k)
  \/ \E a \in ObjectAccessArgs, p \in BOOLEAN : UpdateLinkInfoObject("a", a, NilInfo, p)
  \/ \E a \in ObjectAccessArgs : LinkInfoUpdatedObject("a", a, NilInfo)
  \/ RemoveLinkObject("a")
  \/ GetLinkObject("a")
SpecObjects == Init /\ [][NextObjects]_vars

\* the connect task of link "a" while the link comes and goes
NextConnect ==
  \/ \E k \in ConnectSpecs : UpdateLink(k)
  \/ RemoveLink(ConnectName)
  \/ NewConnectTask
  \/ \E ok \in BOOLEAN : ConnectExecute(ok)
SpecConnect == Init /\ [][NextConnect]_vars

\* lookups by IP address on a changing registry
NextLookup ==
  \/ \E k \in LookupSpecs : UpdateLink(k)
  \/ \E n \in LinkNames : RemoveLink(n)
  \/ \E ip \in LookupIPs, n \in LinkNames \cup {""} : CallGetLinkForIP(ip, n)
SpecLookup == Init /\ [][NextLookup]_vars

\* Visit, its visitor and other goroutines working on the registry
NextVisit ==
  \/ \E k \in VisitSpecs : UpdateLink(k)
  \/ \E n \in LinkNames : RemoveLink(n)
  \/ \E p \in Orders(VisitNames) : VisitSnapshot(p)
  \/ \E v \in VisitorOps, ret \in BOOLEAN : VisitorCall(v, ret)
SpecVisit == Init /\ [][NextVisit]_vars

\* the read loop with the registry and the node's service CIDRs
PolicyFrames ==
  { F_B_Svc3, F_B_Svc5, F_B_Far, F_C_Svc3, F_Far_A, F_Far_Svc3,
    F_NotV4, F_ShortV4, F_Empty, F_Type7, F_V6Mesh, F_BadIHL }
ServeLinkSpecs ==
  { KubeLink("a", CidrStr(IP_B, 24), <<"b.example">>, GwStr, Net_Svc20, ing) :
      ing \in { <<>>, PolicyS3 } }
LocalCIDRs == { <<>>, << Net(<<100, 64, 16, 0>>, 20) >> }

NextServe ==
  \/ \E f \in PolicyFrames : PeerSend(f, MaxPolicyFrames)
  \/ \E k \in ServeLinkSpecs : DeclareLink(k)
  \/ \E local \in LocalCIDRs : StartServe(local, <<"h1", "h2">>)
  \/ ReadHeader
  \/ ReadPayload
  \/ \E e \in ConnErrors : ReadFails(e)
  \/ \E w \in TunOutcomes : Handle(w)
SpecServe == Init /\ [][NextServe]_vars

\* the read loop on longer streams, with oversize headers and unknown types
FlowFrames == { F_Far_A, F_NotV4, F_Type7, F_Empty, F_Empty7, F_Big, F_Big7 }

NextFlow ==
  \/ \E f \in FlowFrames : PeerSend(f, MaxFlowFrames)
  \/ \E hs \in HandlerLists : StartServe(<<>>, hs)
  \/ ReadHeader
  \/ ReadPayload
  \/ \E e \in ConnErrors : ReadFails(e)
  \/ \E w \in TunOutcomes : Handle(w)
SpecFlow == Init /\ [][NextFlow]_vars

\* concurrent writers and Close calls on one tunnel
NextWrite ==
  \/ \E w \in Writers : \E f \in WriterFrames(w) : WritePacket(w, f.ty, f.data)
  \/ \E w \in Writers : WLock(w)
  \/ \E w \in Writers : \E n \in 1..3 : ConnWrite(w, n)
  \/ \E w \in Writers : \E k \in 0..1 : ConnWriteFails(w, k)
  \/ \E e \in CloseOutcomes : TunnelClose(e)
SpecWrite == Init /\ [][NextWrite]_vars

\* threads closing the listener
NextListener ==
  \/ \E t \in Closers : ListenerClose(t)
  \/ \E t \in Closers : OnceDo(t)
  \/ \E t \in Closers : OnceLock(t)
  \/ \E t \in Closers : \E e \in CloseOutcomes : OnceRun(t, e)
  \/ \E t \in Closers : OnceUnlock(t)
  \/ \E t \in Closers : ListenerReturn(t)
SpecListener == Init /\ [][NextListener]_vars

\* both ends of one connection
NextHandshake ==
  \/ \E l \in ExpectedByA : StartTunnelConnection("A", MuxA, l)
  \/ \E m \in MuxesB, l \in ExpectedByB : StartTunnelConnection("B", m, l)
  \/ \E x \in Sides : writeHello(x)
  \/ \E x \in Sides : writeHelloFails(x)
  \/ \E x \in Sides : ReadHello(x)
  \/ \E x \in Sides : ReadHelloFails(x)
  \/ \E x \in Sides : ReturnTunnelConnection(x)
  \/ \E x \in Sides : SendData(x, IPv4Packet(IP_Far, IP_A))
  \/ \E fr \in RogueFrames : RogueSend(fr)
  \/ ConnDrop
SpecHandshake == Init /\ [][NextHandshake]_vars

\* one connection from the writers' end to the read loop's end
\* a payload of n bytes
Payload(n) == [i \in 1..n |-> (7 * i) % 256]

\* the sizes a Write or Read of want bytes may come back with, transitively
RECURSIVE ChunkSizes(_)
ChunkSizes(want) ==
  IF want <= 1 THEN {want} ELSE {want} \cup ChunkSizes((want + 1) \div 2)

\* what writer w hands to WritePacket: no payload, one byte, a length that
\* uses both length bytes, a full buffer
RoundTripLens == { 0, 1, 258, BufferSize }
RoundTripFrames(w) ==
  IF w = 1
    THEN { [ty |-> PACKET_TYPE_DATA, data |-> Payload(258)],
           [ty |-> 255, data |-> Payload(0)],
           [ty |-> PACKET_TYPE_HELLO, data |-> Payload(1)] }
    ELSE { [ty |-> 16 + w, data |-> Payload(IF w = 2 THEN BufferSize ELSE 0)] }
RoundTripSizes == UNION { ChunkSizes(n) : n \in RoundTripLens \cup {3} } \ {0}

\* the connection carries what has been written to the reading end
Deliver ==
  /\ Len(sIn) < Len(wWire)
  /\ sIn' = wWire
  /\ UNCHANGED <<muxLocal, sSent, sPos, sPc, sLbuf, sBuf, sTun, sLog, sRdErr, sErr,
                 sHandlers, sNotes, lvars, notS>>

NextRoundTrip ==
  \/ \E w \in Writers : \E f \in RoundTripFrames(w) : WritePacket(w, f.ty, f.data)
  \/ \E w \in Writers : WLock(w)
  \/ \E w \in Writers : \E n \in RoundTripSizes : ConnWrite(w, n)
  \/ Deliver
  \/ StartServe(<<>>, <<>>)
  \/ ReadHeader
  \/ ReadPayload
  \/ Handle("")
SpecRoundTrip == Init /\ [][NextRoundTrip]_vars

-----------------------------------------------------------------------------
(* Claims *)

\* the policy as the link spec declares it
DeclaredAllowed == { ParseNet(pIngress[i].str).net : i \in { j \in 1..Len(pIngress) : ~pIngress[j].neg } }
DeclaredDenied  == { ParseNet(pIngress[i].str).net : i \in { j \in 1..Len(pIngress) : pIngress[j].neg } }

\* C1: for a link with a declared ingress policy (Allowed, Denied),
\* AllowIngress(dst) grants iff (Allowed is empty or some Allowed CIDR
\* contains dst) and no Denied CIDR contains dst.
C1_GrantIffAllowedAndNotDenied ==
  (pOut.called /\ ~pOut.err /\ pIngress # <<>>) =>
     (pOut.granted <=>
        /\ (DeclaredAllowed = {} \/ \E n \in DeclaredAllowed : IPNetContains(n, pDst))
        /\ ~(\E n \in DeclaredDenied : IPNetContains(n, pDst)))

\* C2: any two distinct links of the registry differ in cluster-address IP
\* and in endpoint host, and an UpdateLink is never accepted into a registry
\* in which another link has its cluster address or endpoint host.
C2_UniqueAddressAndHost ==
  \A a, b \in DOMAIN links :
     a # b => /\ links[a].ClusterAddress.IP # links[b].ClusterAddress.IP
              /\ links[a].Host # links[b].Host

\* the frames of the read loop's log that are IPv4 DATA packets whose
\* source lies in the local mesh CIDR
MeshV4(e) ==
  /\ e.ty = PACKET_TYPE_DATA
  /\ Len(e.pkt) >= ipv4HeaderLen
  /\ e.pkt[1] = 69
  /\ IPNetContains(clusterAddr, SubSeq(e.pkt, 13, 16))
SrcOf(e) == SubSeq(e.pkt, 13, 16)
DstOf(e) == SubSeq(e.pkt, 17, 20)
Served == { sLog[i] : i \in 1..Len(sLog) }

RECURSIVE Decode(_)
Decode(stream) ==
  IF Len(stream) < 3 \/ Len(stream) < 3 + NtoHs(stream) THEN <<>>
  ELSE LET n == NtoHs(stream)
       IN  << [ty |-> stream[3], pkt |-> SubSeq(stream, 4, 3 + n)] >>
             \o Decode(SubSeq(stream, 4 + n, Len(stream)))

\* the payloads of the non-empty DATA frames among the first n frames
RECURSIVE DataPayloads(_, _)
DataPayloads(frames, n) ==
  IF n = 0 THEN <<>>
  ELSE DataPayloads(frames, n - 1) \o
         (IF frames[n].ty = PACKET_TYPE_DATA /\ frames[n].pkt # <<>>
            THEN << frames[n].pkt >> ELSE <<>>)

TunWriteFailed == sPc = "done" /\ sRdErr = ""
Front(q) == SubSeq(q, 1, Len(q) - 1)

\* C10 (as claimed): a frame of a type other than DATA never ends the read
\* loop: once its header is read, the loop ends only by a failing conn.Read.
C10_NonDataNeverEndsLoop ==
  (Len(sLbuf) = 3 /\ sLbuf[3] # PACKET_TYPE_DATA /\ sPc = "done")
     => sRdErr \in ConnErrors

\* C10 (amended): a frame of a type other than DATA whose declared length is
\* at most BufferSize is consumed by its declared length and discarded: the
\* loop goes on to the next header with tun untouched, the frames the loop
\* sees are the frames sent, and tun holds the DATA payloads in arrival
\* order (under SpecFlow every non-empty DATA frame passes the packet
\* checks; a failed tun write ends the loop without the last one).
C10_NonDataSkippedInOrder ==
  /\ [](/\ Len(sLog) <= Len(Decode(sIn))
        /\ \A i \in 1..Len(sLog) :
              /\ sLog[i].ty = Decode(sIn)[i].ty
              /\ sLog[i].pkt = Decode(sIn)[i].pkt
        /\ LET want == DataPayloads(Decode(sIn), Len(sLog))
           IN  sTun = IF TunWriteFailed THEN Front(want) ELSE want)
  /\ [][(sPc = "handle" /\ sLbuf[3] # PACKET_TYPE_DATA)
          => (sPc' = "hdr" /\ sTun' = sTun /\ sErr' = "")]_vars

\* C10 witness (scenario S5): DATA, type 7, DATA were read; both DATA frames
\* are in tun and the loop waits for the next header.
C10_Witness ==
  /\ Len(sLog) = 3
  /\ sLog[1].ty = PACKET_TYPE_DATA /\ sLog[2].ty = 7 /\ sLog[3].ty = PACKET_TYPE_DATA
  /\ sLog[2].pkt = <<0, 0, 0, 0>>
  /\ sTun = << sLog[1].pkt, sLog[3].pkt >>
  /\ sPc = "hdr" /\ sErr = ""

\* the frame a writer's WritePacket call stands for
FrameOf(w) == Append(HtoNs(Len(wArg[w].data)), wArg[w].ty) \o wArg[w].data

\* the whole frames of the first j writers in lock order
RECURSIVE WholeFrames(_)
WholeFrames(j) == IF j = 0 THEN <<>> ELSE WholeFrames(j - 1) \o FrameOf(wOrder[j])

\* C4: the bytes on the wire are the whole frames (3-byte header and complete
\* payload) of the writers in the order in which they obtained wlock,
\* followed at most by the leading part of the next writer's frame, after
\* which no other frame has put a byte; every WritePacket that returned nil
\* has its whole frame on the wire.
C4_WholeFramesInLockOrder ==
  \E j \in 0..Len(wOrder) :
    /\ \A i \in 1..Len(wOrder) :
          (wPc[wOrder[i]] = "done" /\ wErr[wOrder[i]] = "") => i <= j
    /\ IF j = Len(wOrder) THEN wWire = WholeFrames(j)
       ELSE \E n \in 0..(Len(FrameOf(wOrder[j + 1])) - 1) :
               wWire = WholeFrames(j) \o SubSeq(FrameOf(wOrder[j + 1]), 1, n)

\* C4 witness: two writers were in WritePacket at once, the second to call
\* got wlock first, and both frames are on the wire, whole, in lock order.
C4_Witness ==
  /\ wOrder = <<2, 1>>
  /\ \A w \in {1, 2} : wPc[w] = "done" /\ wErr[w] = "" /\ Len(wArg[w].data) > 0
  /\ wWire = FrameOf(2) \o FrameOf(1)
  /\ Len(wWire) >= 7

\* C5 (as claimed): however often TunnelConnection.Close is called, the
\* connection's Close is called once and every call returns what the first
\* call returned.
C5_CloseIdempotent ==
  /\ cCalls <= 1
  /\ \A i \in 1..Len(cRes) : cRes[i] = cRes[1]

\* C6: the wrapped listener's Close is called at most once, and exactly once
\* when a Close call has returned; every Close call of every thread returns
\* the error that this one call produced.
C6_ListenerClosedOnce ==
  /\ oCalls <= 1
  /\ \A t \in Closers : \A i \in 1..Len(oRet[t]) :
        oCalls = 1 /\ oRet[t][i] = oLErr

\* C6 witness: two threads were inside Close at once, the wrapped Close
\* failed, and both threads (one of them twice) got that error.
C6_Witness ==
  /\ oCalls = 1 /\ oLErr = "close failed"
  /\ \E t \in Closers, u \in Closers :
        /\ t # u
        /\ Len(oRet[t]) = 2 /\ Len(oRet[u]) >= 1
        /\ oRet[t][1] = "close failed" /\ oRet[u][1] = "close failed"

\* C7: a broker's first frame on the wire is its HELLO, and a side whose
\* peer's first frame has another type gets an error and no tunnel from
\* NewTunnelConnection.
C7_HelloFirst ==
  \A x \in Sides :
    /\ (hPc[x] # "rogue" /\ hOut[x] # <<>>) => hOut[x][1].ty = PACKET_TYPE_HELLO
    /\ (hPc[x] = "done" /\ hOut[Peer(x)] # <<>>
          /\ hOut[Peer(x)][1].ty # PACKET_TYPE_HELLO)
         => (~hRes[x].tunnel /\ hRes[x].err # "")

\* C7 witness: the peer's first frame was a DATA frame with a well-formed
\* hello as payload; A, which wrote its HELLO first, read it and returned
\* an error without tunnel.
C7_Witness ==
  /\ hPc["A"] = "done" /\ hPc["B"] = "rogue"
  /\ hOut["A"][1].ty = PACKET_TYPE_HELLO
  /\ hOut["B"][1].ty = PACKET_TYPE_DATA
  /\ Len(hOut["B"][1].data) = HelloHeaderLen
  /\ hR["A"].err = "unexpected packet instead of hello handshake"
  /\ ~hRes["A"].tunnel /\ hRes["A"].err # ""

\* the remote hello of x is in and names a cluster
Advertised(x) == hR[x].st = "ok" /\ hR[x].hello.ClusterCIDR.IP # IPv6zero

\* C8: when NewTunnelConnection was given an expected link and the remote
\* hello advertises a cluster IP, not the anonymous one, that differs from
\* the link's, it returns no tunnel and does not dispatch the hello to the
\* access handler; the error (once the handshake itself has gone through)
\* is the mismatch with the expected address.
C8_ExpectedLinkMismatch ==
  \A x \in Sides :
    (/\ hPc[x] = "done"
     /\ hLink[x] # NilNet
     /\ Advertised(x)
     /\ hR[x].hello.ClusterCIDR.IP # hLink[x].IP)
    => /\ ~hRes[x].tunnel
       /\ hRes[x].err # ""
       /\ hAccess[x] = <<>>
       /\ hW[x] = "ok" => hRes[x].err = ErrExpected

\* C8 witness (scenario S4): A expects the link 192.168.0.12, B advertises
\* 192.168.0.13 out of the same range; A has an access handler and returned
\* the mismatch.
C8_Witness ==
  /\ hPc["A"] = "done"
  /\ hLink["A"] = Net(IP_B, 24)
  /\ hMux["A"].connectionHandler
  /\ hR["A"].st = "ok" /\ hR["A"].hello.ClusterCIDR = Net(IP_C, 24)
  /\ hRes["A"] = [tunnel |-> FALSE, hello |-> TRUE, err |-> ErrExpected]
  /\ hAccess["A"] = <<>>

\* C9: a side that got a tunnel from a hello naming a cluster has the
\* peer's cluster IP and port as the peer's own mux has them, the remote
\* cluster CIDR contains the side's mesh IP and the side's cluster CIDR
\* contains the remote cluster IP.
C9_AgreementAndContainment ==
  \A x \in Sides :
    (hPc[x] = "done" /\ hRes[x].tunnel /\ Advertised(x))
    => LET remote == hR[x].hello
           local  == hMux[x].clusterAddr
       IN  /\ IPNetContains(remote.ClusterCIDR, local.IP)
           /\ IPNetContains(local, remote.ClusterCIDR.IP)
           /\ hPc[Peer(x)] # "rogue" =>
                /\ remote.ClusterCIDR = hMux[Peer(x)].clusterAddr
                /\ remote.Port = hMux[Peer(x)].port

\* C9 witness (scenario S1): A (192.168.0.11/24) and B (192.168.0.12/24)
\* both got their tunnel, each holding the other's address and port.
C9_Witness ==
  /\ \A x \in Sides : hPc[x] = "done" /\ hRes[x].tunnel /\ Advertised(x)
  /\ hR["A"].hello.ClusterCIDR = Net(IP_B, 24) /\ hR["A"].hello.Port = 8088
  /\ hR["B"].hello.ClusterCIDR = Net(IP_A, 24) /\ hR["B"].hello.Port = 8088
  /\ hAccess["A"] = << hR["A"].hello >>

\* the sinks: the Mux, then the registered handlers
Sinks == <<"mux">> \o sHandlers
\* every sink was told err, once, in order, and nothing else was told
ToldOnce(err) == sNotes = [i \in 1..Len(Sinks) |-> [sink |-> Sinks[i], err |-> err]]
\* Serve has returned
ServeReturned == sPc = "done" /\ sErr # PanicShortWrite

\* C11 (as claimed): when ReadPacket refuses a header that declares more
\* than BufferSize bytes, the loop ends, Serve returns the buffer-too-small
\* error and the Mux and every registered handler are notified of it.
C11_OversizeReported ==
  (sPc = "done" /\ sRdErr = "buffer too small")
    => (sErr = "buffer too small" /\ ToldOnce("buffer too small"))

\* the error the read loop ended with: ReadPacket's, else tun.Write's
LoopError == IF sRdErr # "" THEN sRdErr ELSE sErr

\* C12 (as claimed): when the loop ends with an I/O error other than EOF,
\* the Mux and then every registered handler are notified exactly once with
\* that error; when it ends with EOF nobody is notified.
C12_NotifiedOnceUnlessEOF ==
  (ServeReturned /\ sRdErr # "buffer too small")
    => IF LoopError = "EOF" THEN sNotes = <<>> ELSE ToldOnce(LoopError)

Called(op) == lres'.op = op

\* C14: an UpdateLink that succeeds for a name already in the registry
\* installs a snapshot with the foreign data (UpdatePending, access info,
\* DNS info) of the one it replaces.
C14_UpdateLinkKeepsForeignData ==
  [][(Called("UpdateLink") /\ ~lres'.err /\ lres'.name \in DOMAIN links)
       => /\ lres'.name \in DOMAIN links'
          /\ links'[lres'.name].Foreign = links[lres'.name].Foreign]_vars

\* C14 witness: link "a" carries a staged access info and a DNS info, and
\* an UpdateLink has just changed its cluster address, endpoint and policy.
C14_Witness ==
  /\ lres.op = "UpdateLink" /\ lres.name = "a" /\ ~lres.err
  /\ "a" \in DOMAIN links
  /\ links["a"].ClusterAddress.IP = IP_C /\ links["a"].Host = "c.example"
  /\ links["a"].Foreign = [UpdatePending |-> TRUE, Access |-> Access2, DNS |-> DNS1]

\* C15: after RemoveLink(name) of a link L of the registry, GetLink(name)
\* finds nothing, GetLinkForClusterAddress and GetLinkForIP on L's cluster
\* IP and GetLinkForEndpoint on L's host do not return L, and Visit does not
\* yield L; RemoveLink of an absent name leaves the three maps as they are.
C15_RemovedLinkIsGone ==
  [][Called("RemoveLink") =>
       LET n    == lres'.name
           post == Registry(links', endpoints', clusteraddr')
       IN  IF n \in DOMAIN links
             THEN LET L == links[n]
                  IN  /\ ~GetLink(post, n).found
                      /\ GetLinkForClusterAddress(post, L.ClusterAddress.IP).link # L
                      /\ GetLinkForEndpoint(post, L.Host).link # L
                      /\ L \notin GetLinkForIP(post, L.ClusterAddress.IP)
                      /\ L \notin VisitLinks(post)
             ELSE post = this]_vars

\* C15 witness: "a" and "b" were both in the registry and indexed, "a" has
\* just been removed, "b" is still found by name, address and host.
C15_Witness ==
  /\ lres.op = "RemoveLink" /\ lres.name = "a"
  /\ DOMAIN links = {"b"}
  /\ DOMAIN endpoints = { links["b"].Host }
  /\ DOMAIN clusteraddr = { links["b"].ClusterAddress.IP }

\* the link a call is about, before the call
Old == links[lres'.name]
New == links'[lres'.name]
Differs(arg, stored) == arg # NilInfo /\ arg[1] # stored
Echoes(arg, stored) == arg # NilInfo /\ arg[1] = stored

\* C16: UpdateLinkInfo(name, v, pending = true) with v different from the
\* stored value stores v and sets UpdatePending; LinkInfoUpdated carrying a
\* stored value clears UpdatePending and leaves the stored values as they
\* are; LinkInfoUpdated carrying only values that differ from the stored
\* ones changes nothing.
C16_TwoPhaseUpdate ==
  [][/\ (Called("UpdateLinkInfo") /\ lres'.name \in DOMAIN links /\ lres'.pending) =>
          /\ Differs(lres'.access, Old.Foreign.Access) =>
               (New.Foreign.Access = lres'.access[1] /\ New.Foreign.UpdatePending)
          /\ Differs(lres'.dns, Old.Foreign.DNS) =>
               (New.Foreign.DNS = lres'.dns[1] /\ New.Foreign.UpdatePending)
     /\ (Called("LinkInfoUpdated") /\ lres'.name \in DOMAIN links) =>
          IF \/ Echoes(lres'.access, Old.Foreign.Access)
             \/ Echoes(lres'.dns, Old.Foreign.DNS)
            THEN New.Foreign = [Old.Foreign EXCEPT !.UpdatePending = FALSE]
            ELSE Registry(links', endpoints', clusteraddr') = this]_vars

\* C16 witness: Access2 is staged next to DNS1; a confirmation carrying
\* Access1 has just returned and the staged value is still pending.
C16_Witness ==
  /\ lres.op = "LinkInfoUpdated" /\ lres.name = "a"
  /\ lres.access = Ptr(Access1) /\ lres.dns = NilInfo
  /\ "a" \in DOMAIN links
  /\ links["a"].Foreign = [UpdatePending |-> TRUE, Access |-> Access2, DNS |-> DNS1]

\* C17: while UpdatePending is set, UpdateLinkInfo with pending = false
\* leaves the registry as it is and reports no change, whatever it carries;
\* with pending = true a value that differs from the staged one replaces it
\* and UpdatePending stays set.
C17_StagingWhilePending ==
  [][(/\ Called("UpdateLinkInfo")
      /\ lres'.name \in DOMAIN links
      /\ Old.Foreign.UpdatePending) =>
        IF ~lres'.pending
          THEN Registry(links', endpoints', clusteraddr') = this /\ ~lres'.changed
          ELSE /\ Differs(lres'.access, Old.Foreign.Access) =>
                    (New.Foreign.Access = lres'.access[1] /\ New.Foreign.UpdatePending
                       /\ lres'.changed)
               /\ Differs(lres'.dns, Old.Foreign.DNS) =>
                    (New.Foreign.DNS = lres'.dns[1] /\ New.Foreign.UpdatePending
                       /\ lres'.changed)]_vars

\* C17 witness: Access1 is staged; UpdateLinkInfo with Access2 and DNS1 and
\* pending = false has just been ignored.
C17_Witness ==
  /\ lres.op = "UpdateLinkInfo" /\ lres.name = "a"
  /\ lres.access = Ptr(Access2) /\ lres.dns = Ptr(DNS1)
  /\ ~lres.pending /\ ~lres.changed
  /\ "a" \in DOMAIN links
  /\ links["a"].Foreign = [UpdatePending |-> TRUE, Access |-> Access1, DNS |-> NoDNS]

\* C18: Visit calls the visitor with the links the registry held when the
\* slice was filled, each once, in the slice's order; it ends with the first
\* call that returns false or with the last link; Links.lock is free while
\* the visitor runs, so the visitor's own registry calls go through, and
\* they do not change what is visited.
C18_VisitSnapshot ==
  /\ { vSnap[i] : i \in 1..Len(vSnap) } = vAtSnap
  /\ Len(vSnap) = Cardinality(vAtSnap)
  /\ Len(vSeen) <= Len(vSnap) /\ Len(vRets) = Len(vSeen)
  /\ vSeen = SubSeq(vSnap, 1, Len(vSeen))
  /\ \A i \in 1..(Len(vRets) - 1) : vRets[i]
  /\ vPc = "iter" => (vLock = "free" /\ Len(vSeen) < Len(vSnap)
                        /\ \A i \in 1..Len(vRets) : vRets[i])
  /\ vPc = "done" => (vLock = "free"
                        /\ (vSeen = vSnap \/ (vRets # <<>> /\ ~vRets[Len(vRets)])))

\* C18 witness: Visit took a slice of three links; the visitor removed "a"
\* and changed "b" while it ran, and was still called with all three.
C18_Witness ==
  /\ vPc = "done" /\ Len(vSeen) = 3 /\ vSeen = vSnap
  /\ { l.Name : l \in vAtSnap } = {"a", "b", "c"}
  /\ "a" \notin DOMAIN links
  /\ "b" \in DOMAIN links /\ links["b"].Port = 8088
  /\ \E i \in 1..3 : vSeen[i].Name = "b" /\ vSeen[i].Port = DEFAULT_PORT

\* the names of the links whose egress (the service CIDR first) has ip
Routing(ip) ==
  { n \in DOMAIN links : \E i \in 1..Len(links[n].Egress) :
                           IPNetContains(links[n].Egress[i], ip) }

\* C19: GetLinkForIP(ip) returns the link the cluster address index holds
\* for ip if there is one, also when another link routes ip; otherwise a
\* link whose egress contains ip, the service CIDR being part of the
\* egress; otherwise nil. With "b" the only link routing 100.64.16.1, by
\* its service CIDR 100.64.16.0/20, the address resolves to "b".
C19_ClusterAddressThenEgress ==
  [][Called("GetLinkForIP") =>
       LET ip == lres'.ip
           r  == lres'.link
       IN  /\ \A n \in DOMAIN links :
                (links[n].ServiceCIDR # NilNet /\ IPNetContains(links[n].ServiceCIDR, ip))
                  => n \in Routing(ip)
           /\ IF ip \in DOMAIN clusteraddr THEN r = clusteraddr[ip]
              ELSE IF Routing(ip) # {} THEN \E n \in Routing(ip) : r = links[n]
              ELSE r = NilLink
           /\ ( /\ ip = IP_Svc1 /\ Routing(ip) = {"b"}
                /\ links["b"].ServiceCIDR = Net(<<100, 64, 16, 0>>, 20) )
                => r = links["b"]]_vars

\* C19 witness: 192.168.0.13 is the cluster address of "b" and lies in the
\* egress 192.168.0.0/16 of "a"; the lookup has returned "b".
C19_Witness ==
  /\ lres.op = "GetLinkForIP" /\ lres.ip = IP_C /\ lres.name = "b"
  /\ "a" \in Routing(IP_C) /\ "b" \notin Routing(IP_C)
  /\ IP_C \in DOMAIN clusteraddr /\ clusteraddr[IP_C].Name = "b"

\* C20: an Execute that finds the link and whose AssureTunnel succeeds
\* resets the rate limiter and returns Succeeded with a reschedule after 10
\* minutes; one whose AssureTunnel fails returns a delay taken from the
\* limiter, between 10 seconds and 10 minutes, and leaves the limiter
\* further along its backoff, not reset; either way a further execution is
\* requested while the link is in the registry.
C20_ConnectTaskOutcome ==
  [][(Called("Execute") /\ tRuns' = tRuns + 1 /\ ConnectName \in DOMAIN links) =>
       /\ tPending' /\ tStatus'.again
       /\ ~lres'.err => /\ tRate' = 0
                        /\ tStatus'.kind = "Succeeded"
                        /\ tStatus'.after = 600
       /\ lres'.err => /\ tStatus'.kind = "Delay"
                       /\ tStatus'.after = tRate'
                       /\ 10 <= tRate' /\ tRate' <= 600
                       /\ tRate' > tRate \/ tRate' = 600]_vars

\* C20 witness: the link is in the registry, AssureTunnel has failed for
\* the third time in a row, the limiter stands at 40 seconds and the task
\* is to run again.
C20_Witness ==
  /\ lres.op = "Execute" /\ lres.err
  /\ ConnectName \in DOMAIN links
  /\ tRuns >= 3 /\ tRate = 40 /\ tStatus.after = 40 /\ tPending

\* C21: an Execute that does not find the task's link does not call
\* AssureTunnel, leaves the rate limiter alone and returns Succeeded with no
\* further execution requested; an Execute that finds it calls AssureTunnel.
\* A step that changes the registry, RemoveLink included, does not touch
\* the task: its requested execution stays requested until it runs.
C21_CancelledAtNextWake ==
  [][/\ (Called("Execute") /\ tRuns' = tRuns + 1 /\ ConnectName \notin DOMAIN links)
          => /\ ~lres'.assured /\ ~lres'.err
             /\ tStatus' = [kind |-> "Succeeded", again |-> FALSE, after |-> 0]
             /\ ~tPending'
             /\ tRate' = tRate
     /\ (Called("Execute") /\ tRuns' = tRuns + 1 /\ ConnectName \in DOMAIN links)
          => lres'.assured
     /\ links' # links => UNCHANGED tvars]_vars

\* C21 witness: the task had failed twice and was to run again, the link
\* was removed, and the execution after that has ended the task.
C21_Witness ==
  /\ lres.op = "Execute" /\ ~lres.assured
  /\ ConnectName \notin DOMAIN links
  /\ tTask /\ tRuns >= 3 /\ tRate = 20 /\ ~tPending /\ tStatus.kind = "Succeeded"

\* C22: a RegisterLink(name, 192.168.0.13/24, "c.example", serviceCIDR)
\* whose object the store accepts returns no error and leaves a link of
\* that name in the registry, with cluster address 192.168.0.13/24 and
\* host "c.example", found by name, by cluster IP and by endpoint host.
C22_RegisteredLinkResolvable ==
  [][(Called("RegisterLink") /\ store' # store) =>
       LET n    == lres'.name
           post == Registry(links', endpoints', clusteraddr')
       IN  /\ \E o \in store' : o.Name = n
           /\ ~lres'.err
           /\ GetLink(post, n).found
           /\ links'[n].ClusterAddress = Net(IP_C, 24)
           /\ links'[n].Host = "c.example"
           /\ GetLinkForClusterAddress(post, IP_C).link = links'[n]
           /\ GetLinkForEndpoint(post, "c.example").link = links'[n]]_vars

\* the entries of the declared policy that go to Allowed and to Denied
NAllowed == Cardinality({ i \in 1..Len(pIngress) : ~pIngress[i].neg })
NDenied  == Cardinality({ i \in 1..Len(pIngress) : pIngress[i].neg })

\* C23: for a link whose policy parses, AllowIngress returns set = TRUE
\* exactly when the policy has an Allowed or a Denied CIDR; with no policy
\* declared it returns (granted, set) = (TRUE, FALSE) for every destination.
C23_SetIffPolicyDeclared ==
  (pOut.called /\ ~pOut.err) =>
    /\ pOut.set <=> (NAllowed + NDenied > 0)
    /\ pIngress = <<>> => (pOut.granted /\ ~pOut.set)

\* C23 witness: a policy of Denied entries only is reported as set.
C23_Witness ==
  /\ pOut.called /\ ~pOut.err /\ pOut.set
  /\ NAllowed = 0 /\ NDenied = 2

\* C23 witness of the other case is the link without policy
C23_WitnessUnset == pOut.called /\ pIngress = <<>> /\ ~pOut.set /\ pOut.granted

\* the handshake of side x went through and the remote hello carries the
\* anonymous cluster address
Anonymous(x) ==
  /\ hPc[x] = "done" /\ hW[x] = "ok" /\ hR[x].st = "ok"
  /\ hR[x].hello.ClusterCIDR.IP = IPv6zero

\* C24: a remote hello with the all-zero cluster address is accepted,
\* whether or not a link was expected and whatever the local mesh range:
\* NewTunnelConnection returns the tunnel and the hello without error and
\* hands the hello to the access handler if there is one.
C24_AnonymousAccepted ==
  \A x \in Sides :
    Anonymous(x) =>
      /\ hRes[x] = [tunnel |-> TRUE, hello |-> TRUE, err |-> ""]
      /\ hMux[x].connectionHandler => hAccess[x] = << hR[x].hello >>

\* C24 witness: A expects the link 192.168.0.12 and got its tunnel from an
\* anonymous hello, whose address is neither the link's nor in A's range.
C24_Witness ==
  /\ Anonymous("A")
  /\ hLink["A"] = Net(IP_B, 24)
  /\ ~IPNetContains(hMux["A"].clusterAddr, hR["A"].hello.ClusterCIDR.IP)
  /\ hRes["A"].tunnel

\* the link indexed by the frame's source declares no ingress policy
NoPolicy(e) ==
  /\ SrcOf(e) \in DOMAIN clusteraddr
  /\ LET r == clusteraddr[SrcOf(e)].Ingress
     IN  r.isnil \/ (Len(r.Allowed) + Len(r.Denied) = 0)

\* C25: an IPv4 DATA frame with its source in the local mesh CIDR, whose
\* link declares no ingress policy, is handed to tun exactly when the node
\* advertises no service CIDR or the destination lies in one of them.
C25_UnsetPolicyFallsBackToLocal ==
  \A e \in Served :
    (MeshV4(e) /\ NoPolicy(e)) =>
      (e.out = "tun" <=>
         (Len(muxLocal) = 0 \/ \E i \in 1..Len(muxLocal) : IPNetContains(muxLocal[i], DstOf(e))))

\* C25 witness: the node advertises no service CIDR and a frame of a link
\* without policy, to an address far from anything local, is on tun.
C25_Witness ==
  /\ sPc # "new" /\ muxLocal = <<>>
  /\ \E e \in Served :
       /\ MeshV4(e) /\ NoPolicy(e) /\ DstOf(e) = IP_Far
       /\ e.out = "tun" /\ e.pkt \in { sTun[i] : i \in 1..Len(sTun) }

\* the packets serve handed to tun.Write, in order
RECURSIVE HandedToTun(_)
HandedToTun(n) ==
  IF n = 0 THEN <<>>
  ELSE HandedToTun(n - 1) \o (IF sLog[n].out = "tun" THEN << sLog[n].pkt >> ELSE <<>>)

NotV4(e) == e.ty = PACKET_TYPE_DATA /\ e.pkt # <<>> /\ e.pkt[1] \div 16 # 4
BadV4(e) ==
  /\ e.ty = PACKET_TYPE_DATA /\ e.pkt # <<>> /\ e.pkt[1] \div 16 = 4
  /\ (Len(e.pkt) < 20 \/ Len(e.pkt) < 4 * (e.pkt[1] % 16))

\* C26: a non-empty DATA frame whose version is not 4 is handed to tun,
\* whatever the registry and the node's service CIDRs hold, and tun gets
\* the bytes as they came; a version 4 frame too short for its header is
\* not handed to tun and the loop goes on: Serve returns only by a failed
\* read or a failed tun write of a later frame.
C26_NonV4Forwarded ==
  /\ \A e \in Served : NotV4(e) => e.out = "tun"
  /\ \A e \in Served : BadV4(e) => e.out = "drop"
  /\ LET handed == HandedToTun(Len(sLog))
     IN  sTun = handed \/ (TunWriteFailed /\ sTun = Front(handed))
  /\ (sPc = "done" /\ sRdErr = "") => (sLog # <<>> /\ sLog[Len(sLog)].out = "tun")

\* C26 witness: a version 6 packet carrying the mesh address of no link and
\* a destination outside the node's service CIDR is on tun, and a version 4
\* frame with a header length beyond its end was dropped before it.
C26_Witness ==
  /\ muxLocal # <<>> /\ links # EmptyMap
  /\ Len(sLog) = 2 /\ BadV4(sLog[1]) /\ sLog[1].out = "drop"
  /\ NotV4(sLog[2]) /\ Len(sLog[2].pkt) = 20
  /\ sTun = << sLog[2].pkt >>

\* C27: NewTunnelConnection returns only when writeHello and readHello have
\* both ended; the handshake has gone through (a hello is returned) exactly
\* when both succeeded; a failed readHello is the error reported, also when
\* writeHello failed as well; a failed writeHello is reported when readHello
\* succeeded.
C27_HandshakeJoinsBoth ==
  \A x \in Sides :
    hPc[x] = "done" =>
      /\ hW[x] \in {"ok", "err"} /\ hR[x].st \in {"ok", "err"}
      /\ hRes[x].hello <=> (hW[x] = "ok" /\ hR[x].st = "ok")
      /\ hR[x].st = "err" =>
           hRes[x].err = "cannot finish connection handshake: " \o hR[x].err
      /\ (hR[x].st = "ok" /\ hW[x] = "err") =>
           hRes[x].err = "cannot finish connection handshake: " \o ErrClosed

\* C27 witness: the connection went down before either side wrote; A's
\* write and A's read both failed and A reports the read's EOF.
C27_Witness ==
  /\ hPc["A"] = "done" /\ hW["A"] = "err" /\ hR["A"].st = "err"
  /\ hRes["A"] = [tunnel |-> FALSE, hello |-> FALSE,
                  err |-> "cannot finish connection handshake: EOF"]

\* C27 witness of the other failure: the read went through, the write did not
C27_WitnessWriteOnly ==
  /\ hPc["A"] = "done" /\ hW["A"] = "err" /\ hR["A"].st = "ok"
  /\ hRes["A"].err = "cannot finish connection handshake: " \o ErrClosed

\* C28: no step changes a Link object that exists; a step that changes what
\* the registry holds for a name installs an object at a fresh address,
\* under the name, the host and the cluster IP at once; the Link a reader
\* took from the registry is still what the reader saw.
C28_SnapshotsImmutable ==
  [][/\ \A a \in DOMAIN gHeap : a \in DOMAIN gHeap' /\ gHeap'[a] = gHeap[a]
     /\ \A n \in DOMAIN gReg'.links :
          (n \notin DOMAIN gReg.links
             \/ gReg'.links[n] # gReg.links[n]
             \/ gHeap'[gReg'.links[n]] # gHeap[gReg.links[n]])
          => LET a == gReg'.links[n]
             IN  /\ a \notin DOMAIN gHeap
                 /\ gReg'.endpoints[gHeap'[a].Host] = a
                 /\ gReg'.clusteraddr[gHeap'[a].ClusterAddress.IP] = a
     /\ gHeld' # NoPointer => gHeap'[gHeld'.addr] = gHeld'.val]_vars

\* C28 witness: a reader holds the Link of "a" it got before an access info
\* was staged and the link was then updated and removed; the object it
\* holds has none of that.
C28_Witness ==
  /\ gHeld # NoPointer /\ gHeld.val.Foreign = NoForeignData
  /\ gHeld.val.ClusterAddress.IP = IP_B
  /\ gHeap[gHeld.addr] = gHeld.val
  /\ Len(gHeap) = 3
  /\ gHeap[2].Foreign.Access = Access1 /\ gHeap[2].Foreign.UpdatePending
  /\ gHeap[3].ClusterAddress.IP = IP_C
  /\ gReg = EmptyRegistry

\* C29: MatchLink answers true exactly when the object's cluster address
\* is a CIDR string, the served set holds "all" or the object's name, and
\* the address lies in the local mesh CIDR; the served set is {"all"}
\* whenever the option names "all", alone or among other names.
C29_ResponsibleIff ==
  /\ cMatch.called =>
       (cMatch.ok <=>
          /\ cMatch.ClusterAddress.kind = "cidr"
          /\ (All \in cResponsible \/ cMatch.Name \in cResponsible)
          /\ IPNetContains(cClusterCIDR, cMatch.ClusterAddress.IP))
  /\ cPrepared =>
       LET parts == Split(cOption, ",")
       IN  (\E i \in 1..Len(parts) : TrimSpace(parts[i]) = All) => cResponsible = { All }

\* C29 witness: with the option " all ,b" the node answers for link "c" at
\* 192.168.0.12/24 inside its mesh 192.168.0.0/24.
C29_Witness ==
  /\ cClusterCIDR = Net(<<192, 168, 0, 0>>, 24)
  /\ cOption = <<" ">> \o All \o <<" ", ",", "b">>
  /\ cResponsible = { All }
  /\ cMatch.called /\ cMatch.ok /\ cMatch.Name = <<"c">> /\ cMatch.ip = IP_B

\* C29 witness of a refusal: a served link whose address is outside the mesh
C29_WitnessOutside ==
  /\ cResponsible = { <<"a">>, <<"b">> }
  /\ cMatch.called /\ ~cMatch.ok /\ cMatch.Name = <<"a">>
  /\ cMatch.ClusterAddress = CidrStr(IP_Far, 8)

\* the links GetFirewallChains saw and their policies
HasPolicy(l) == ~l.Ingress.isnil /\ Len(l.Ingress.Allowed) + Len(l.Ingress.Denied) > 0
WithPolicy == { n \in DOMAIN fOut.links : HasPolicy(fOut.links[n]) }
ChainAt(i) == fOut.chains[i]
ChainsNamed(c) == { i \in 1..Len(fOut.chains) : ChainAt(i).chain = c }
LinkChainName(n) == "KUBELINK-FW-" \o encodeName(n)

\* the rules of a link's policy: Denied to mark-drop, Allowed to RETURN,
\* then the catch-all to mark-drop
PolicyRules(l) ==
  [i \in 1..Len(l.Ingress.Denied) |->
     [m |-> "", s |-> NilNet, d |-> l.Ingress.Denied[i], j |-> "KUBELINK-MARK-DROP", arg |-> ""]]
  \o [i \in 1..Len(l.Ingress.Allowed) |->
     [m |-> "", s |-> NilNet, d |-> l.Ingress.Allowed[i], j |-> "RETURN", arg |-> ""]]
  \o << [m |-> "", s |-> NilNet, d |-> NilNet, j |-> "KUBELINK-MARK-DROP", arg |-> ""] >>

\* what GetFirewallChains emits around the link chains: nothing without a
\* policy; else one chain per link with a policy and none for the others,
\* one LINKS rule per link with a policy, from the link's cluster IP to the
\* link's chain, and the mark-drop chain and the link chains before LINKS
ChainLayout ==
  /\ WithPolicy = {} => fOut.chains = <<>>
  /\ WithPolicy # {} =>
       /\ \A n \in DOMAIN fOut.links :
            Cardinality(ChainsNamed(LinkChainName(n))) = IF n \in WithPolicy THEN 1 ELSE 0
       /\ Cardinality(ChainsNamed("KUBELINK-LINKS")) = 1
       /\ Cardinality(ChainsNamed("KUBELINK-MARK-DROP")) = 1
       /\ \A k \in ChainsNamed("KUBELINK-LINKS") :
            /\ Len(ChainAt(k).rules) = Cardinality(WithPolicy)
            /\ \A n \in WithPolicy :
                 \E i \in 1..Len(ChainAt(k).rules) :
                   ChainAt(k).rules[i] =
                     [m |-> "", s |-> Net(fOut.links[n].ClusterAddress.IP, 32), d |-> NilNet,
                      j |-> LinkChainName(n), arg |-> ""]
            /\ \A i \in ChainsNamed("KUBELINK-MARK-DROP") : i < k
            /\ \A n \in WithPolicy : \A i \in ChainsNamed(LinkChainName(n)) : i < k

\* C30 (as claimed): the chain of a link with a policy holds the policy's
\* rules and nothing else, and the chains are laid out as above.
C30_ChainIsPolicyRules ==
  fOut.called =>
    /\ ChainLayout
    /\ \A n \in WithPolicy : \A i \in ChainsNamed(LinkChainName(n)) :
         ChainAt(i).rules = PolicyRules(fOut.links[n])

\* C30 (amended): the chain of a link with a policy starts with a rule that
\* carries only the comment "firewall settings for link <name>" and no
\* target; the policy's rules follow: one mark-drop jump per Denied CIDR,
\* one RETURN per Allowed CIDR, the catch-all mark-drop jump. The chains are
\* laid out as claimed.
C30_ChainIsCommentThenPolicyRules ==
  fOut.called =>
    /\ ChainLayout
    /\ \A n \in WithPolicy : \A i \in ChainsNamed(LinkChainName(n)) :
         /\ ChainAt(i).rules[1] =
              [m |-> "comment --comment firewall settings for link " \o n,
               s |-> NilNet, d |-> NilNet, j |-> "", arg |-> ""]
         /\ Tail(ChainAt(i).rules) = PolicyRules(fOut.links[n])

\* C30 witness: "a" declares !100.64.16.5/32, 100.64.16.0/28, !100.64.16.0/30
\* and "b" declares 10.0.0.0/8; both chains are emitted before LINKS, which
\* has two rules, and the chain of "a" has the comment, two mark-drop jumps,
\* one RETURN and the catch-all.
C30_Witness ==
  /\ fOut.called /\ WithPolicy = {"a", "b"}
  /\ Len(fOut.chains) = 6
  /\ fOut.chains[5].chain = "KUBELINK-LINKS" /\ Len(fOut.chains[5].rules) = 2
  /\ \E i \in ChainsNamed(LinkChainName("a")) :
       /\ Len(ChainAt(i).rules) = 5
       /\ ChainAt(i).rules[2].j = "KUBELINK-MARK-DROP"
       /\ ChainAt(i).rules[3].j = "KUBELINK-MARK-DROP"
       /\ ChainAt(i).rules[4].j = "RETURN"
       /\ ChainAt(i).rules[4].d = Net(<<100, 64, 16, 0>>, 28)

\* what the j-th WritePacket call in lock order was given
Written(j) == wArg[wOrder[j]]

\* the bytes that the first j frames in lock order take on the connection
RECURSIVE WireEnd(_)
WireEnd(j) == IF j = 0 THEN 0 ELSE WireEnd(j - 1) + 3 + Len(Written(j).data)

\* C31: frame round trip.  The bytes a WritePacket call that returned nil has
\* put on the connection are the payload length as two bytes, most
\* significant first, then the type byte, then the payload; and whenever
\* ReadPacket returns at the other end (buffer of 17000 bytes, any mix of
\* short writes and short reads), its length, type and payload are those of
\* the next frame written, and it has consumed exactly 3 + length bytes of
\* the stream for every frame so far.
C31_FrameRoundTrip ==
  /\ \A j \in 1..Len(wOrder) :
        (wPc[wOrder[j]] = "done" /\ wErr[wOrder[j]] = "") =>
          /\ Len(wWire) >= WireEnd(j)
          /\ wWire[WireEnd(j - 1) + 1] * 256 + wWire[WireEnd(j - 1) + 2]
                = Len(Written(j).data)
          /\ wWire[WireEnd(j - 1) + 3] = Written(j).ty
          /\ SubSeq(wWire, WireEnd(j - 1) + 4, WireEnd(j)) = Written(j).data
  /\ Len(sLog) <= Len(wOrder)
  /\ \A j \in 1..Len(sLog) :
        sLog[j].ty = Written(j).ty /\ sLog[j].pkt = Written(j).data
  /\ sPc = "handle" =>
        LET j == Len(sLog) + 1
        IN  /\ j <= Len(wOrder)
            /\ NtoHs(sLbuf) = Len(Written(j).data)
            /\ sLbuf[3] = Written(j).ty
            /\ sBuf = Written(j).data
            /\ sPos = WireEnd(j)
  /\ sPc = "hdr" /\ sLbuf = <<>> => sPos = WireEnd(Len(sLog))

\* C31 witness: after a frame of 258 bytes, ReadPacket returns a frame that
\* fills the buffer of 17000 bytes, with its type and payload as written.
C31_Witness ==
  /\ sPc = "handle"
  /\ Len(sLog) = 1 /\ Len(sLog[1].pkt) = 258
  /\ Len(sBuf) = BufferSize /\ sBuf = Payload(BufferSize)
  /\ sLbuf[3] = 18
  /\ sPos = 3 + 258 + 3 + BufferSize

\* C31 witness of short transfers: a write has put part of a payload on the
\* connection and a read has returned part of what the frame declares.
C31_WitnessShortRead ==
  /\ sPc = "body"
  /\ 0 < Len(sBuf) /\ Len(sBuf) < NtoHs(sLbuf)
  /\ \E w \in Writers : wPc[w] = "data" /\ wOff[w] > 0

\* a 4-byte address as an integer, most significant byte first, in two
\* halves of 16 bits: <<upper, lower>>
Halves(ip) == << ip[1] * 256 + ip[2], ip[3] * 256 + ip[4] >>
\* the halves of the integer plus n; the upper half passes 65535 when the sum
\* does not fit into four bytes
HalvesPlus(ip, n) ==
  << Halves(ip)[1] + (Halves(ip)[2] + n) \div 65536, (Halves(ip)[2] + n) % 65536 >>

\* C32: SubIP(cidr, n) returns cidr's address plus n, taken as an integer with
\* the most significant byte first, for every n >= 0 and every base
\* address, leaves cidr as it was and never indexes outside the address; and
\* Prepare, given a service CIDR and no dns-service-ip, ends with the
\* service CIDR's base address plus 10 as DNS service address.
C32_SubIPAddsWithCarry ==
  /\ cSub.called =>
        /\ ~cSub.panic
        /\ cSub.after = cSub.cidr
        /\ Len(cSub.ip) = Len(cSub.cidr.IP)
        /\ Halves(cSub.ip) = HalvesPlus(cSub.cidr.IP, cSub.n)
  /\ cPrepareErr \in { "", "invalid ip of coredns service" }

\* C33: an UpdateLink whose spec fails parsing or validation (service, egress,
\* ingress or cluster-address CIDR, empty endpoint, missing or unparsable
\* gateway, non-numeric port, bad public key) returns an error and leaves the
\* three indices as they were; a snapshot stored under that name stays in
\* place and resolvable (the secondary indices resolve what they resolved
\* before the call).
C33_InvalidSpecLeavesRegistry ==
  [][\A k \in BadSpecs :
       (Called("UpdateLink") /\ lres'.name = k.Name /\ UpdateLink(k)) =>
         /\ lres'.err
         /\ UNCHANGED <<links, endpoints, clusteraddr>>
         /\ k.Name \in DOMAIN links =>
               GetLink(Registry(links', endpoints', clusteraddr'), k.Name)
                 = [found |-> TRUE, link |-> links[k.Name]]]_vars

\* C33 witness: UpdateLink has just failed for a name whose earlier snapshot
\* is still in all three indices.
C33_Witness ==
  /\ lres.op = "UpdateLink" /\ lres.err
  /\ lres.name \in DOMAIN links
  /\ endpoints[links[lres.name].Host] = links[lres.name]
  /\ clusteraddr[links[lres.name].ClusterAddress.IP] = links[lres.name]

\* C34: registry index consistency.  In every state reached by UpdateLink,
\* ReplaceLink, UpdateLinkInfo, LinkInfoUpdated, RegisterLink and RemoveLink,
\* every link of the name map is the value of the cluster-address index at
\* its cluster IP and of the endpoint index at its host, and every entry of
\* the two secondary indices is the current snapshot of a link of the name
\* map.
C34_IndexConsistency ==
  /\ \A n \in DOMAIN links :
        /\ links[n].ClusterAddress.IP \in DOMAIN clusteraddr
        /\ clusteraddr[links[n].ClusterAddress.IP] = links[n]
        /\ links[n].Host \in DOMAIN endpoints
        /\ endpoints[links[n].Host] = links[n]
  /\ \A ip \in DOMAIN clusteraddr :
        /\ clusteraddr[ip].Name \in DOMAIN links
        /\ links[clusteraddr[ip].Name] = clusteraddr[ip]
  /\ \A h \in DOMAIN endpoints :
        /\ endpoints[h].Name \in DOMAIN links
        /\ links[endpoints[h].Name] = endpoints[h]

\* first-match evaluation of a chain's rules for a packet to dst: the first
\* rule with a target whose -d is absent or contains dst decides; a jump to
\* the mark-drop chain drops the packet, RETURN and the end of the chain
\* let it pass
RECURSIVE ChainDrops(_, _, _)
ChainDrops(rules, i, dst) ==
  IF i > Len(rules) THEN FALSE
  ELSE IF rules[i].j # "" /\ (rules[i].d = NilNet \/ IPNetContains(rules[i].d, dst))
    THEN rules[i].j = "KUBELINK-MARK-DROP"
  ELSE ChainDrops(rules, i + 1, dst)

\* C35: the chain emitted for a link and the link's AllowIngress agree: for
\* every ingress policy and every destination, first-match evaluation of
\* the link's chain drops the packet exactly when AllowIngress does not
\* grant it.
C35_ChainAgreesWithAllowIngress ==
  (fOut.called /\ pOut.called) =>
     \A n \in WithPolicy :
        fOut.links[n] = pOut.link =>
          \A i \in ChainsNamed(LinkChainName(n)) :
             ChainDrops(ChainAt(i).rules, 1, pDst) <=> ~pOut.granted

\* C36: RegisterLink is all-or-nothing across the store and the registry:
\* when it returns without error the object is in the store and its link is
\* in the registry; when it returns an error it has added nothing to either
\* (a refused create leaves the registry as it was, and no object stays in
\* the store without its link).
C36_RegisterAllOrNothing ==
  [][Called("RegisterLink") =>
       IF lres'.err
         THEN store' = store /\ UNCHANGED <<links, endpoints, clusteraddr>>
         ELSE /\ \E o \in store' : o.Name = lres'.name
              /\ lres'.name \in DOMAIN links']_vars

\* C37: the two endpoints of one connection agree on the handshake: it never
\* happens that NewTunnelConnection has returned a tunnel at one endpoint
\* while NewTunnelConnection on the same connection has rejected the hello
\* it received at the other endpoint.
C37_HandshakeOutcomesAgree ==
  \A x \in Sides :
     ~(/\ hRes[x].tunnel
       /\ hRes[Peer(x)].hello /\ ~hRes[Peer(x)].tunnel
       /\ hRes[Peer(x)].err \in { ErrExpected, ErrForeign, ErrLocal })

\* the last call staged an access info and a DNS info for its link with
\* pending = true, and both are what the link holds, pending
BothStaged ==
  /\ lres.op = "UpdateLinkInfo" /\ lres.pending /\ lres.changed
  /\ lres.access # NilInfo /\ lres.dns # NilInfo
  /\ lres.name \in DOMAIN links
  /\ links[lres.name].Foreign
       = [UpdatePending |-> TRUE, Access |-> lres.access[1], DNS |-> lres.dns[1]]

\* C38: once an access info and a DNS info have both been staged for a link
\* with pending = true, a LinkInfoUpdated that confirms only one of the two
\* leaves UpdatePending set.
C38_PendingUntilBothConfirmed ==
  [][(/\ BothStaged
      /\ Called("LinkInfoUpdated") /\ lres'.name = lres.name
      /\ ~(lres'.access = lres.access /\ lres'.dns = lres.dns)) =>
        (lres.name \in DOMAIN links' /\ links'[lres.name].Foreign.UpdatePending)]_vars

\* C39: an UpdateLinkInfo that names a link missing from the registry, or
\* whose access and DNS arguments are each nil or equal to what the link
\* holds, is a no-op whatever pending is: the registry keeps its snapshots
\* (UpdatePending included) and the call reports changed = false.
C39_EqualValuesNoOp ==
  [][(/\ Called("UpdateLinkInfo")
      /\ \/ lres'.name \notin DOMAIN links
         \/ /\ ~Differs(lres'.access, Old.Foreign.Access)
            /\ ~Differs(lres'.dns, Old.Foreign.DNS)) =>
        (Registry(links', endpoints', clusteraddr') = this /\ ~lres'.changed)]_vars

\* C39 witness: UpdateLinkInfo with pending = true has just returned for a
\* link that is not pending and already holds both values it was given; the
\* link is as before and changed is false.
C39_Witness ==
  /\ lres.op = "UpdateLinkInfo" /\ lres.pending /\ ~lres.changed
  /\ lres.access = Ptr(Access1) /\ lres.dns = Ptr(DNS1)
  /\ lres.name \in DOMAIN links
  /\ links[lres.name].Foreign = [UpdatePending |-> FALSE, Access |-> Access1, DNS |-> DNS1]

\* C39 witness for a missing link: the call names a link that is not in the
\* registry while another one is.
C39_WitnessMissing ==
  /\ lres.op = "UpdateLinkInfo" /\ ~lres.changed /\ lres.access # NilInfo
  /\ lres.name \notin DOMAIN links /\ DOMAIN links # {}

\* C40: a frame with declared length 0 is skipped whatever its type: the
\* read loop goes on to the next header without a write to tun, without an
\* error and without a notification, before it looks at the type or at a
\* byte of the payload.
C40_EmptyFrameSkipped ==
  /\ [](\A i \in 1..Len(sLog) : sLog[i].pkt = <<>> => sLog[i].out = "empty")
  /\ [][(sPc = "handle" /\ NtoHs(sLbuf) = 0) =>
          /\ sPc' = "hdr"
          /\ sLog' = Append(sLog, [ty |-> sLbuf[3], pkt |-> <<>>, out |-> "empty"])
          /\ UNCHANGED <<sTun, sErr, sRdErr, sNotes, sPos>>]_vars

\* C40 witness: an empty DATA frame and an empty frame of type 7 were
\* skipped, the DATA frame after them is in tun, and the loop reads on.
C40_Witness ==
  /\ Len(sLog) = 3
  /\ sLog[1] = [ty |-> PACKET_TYPE_DATA, pkt |-> <<>>, out |-> "empty"]
  /\ sLog[2] = [ty |-> 7, pkt |-> <<>>, out |-> "empty"]
  /\ sLog[3].out = "tun" /\ sTun = << sLog[3].pkt >>
  /\ sPc = "hdr" /\ sErr = ""

====
